---- MODULE Spec2Model ----
(***************************************************************************)
(* Model of the local file search engine.                                  *)
(*                                                                         *)
(* The index store (src/index_manager.py): the in-memory snapshot          *)
(* index_data, the three files of the persistence protocol (index_path,    *)
(* index_path.tmp, index_path.bak), the user files that add_file reads,    *)
(* and the position of the thread that is inside the store.                *)
(*                                                                         *)
(* The file monitor (src/file_monitor.py): the FileMonitor object (its     *)
(* running flag, interval and observer), the observer's event queue, the   *)
(* observer thread that runs the IndexFileHandler callbacks, and the       *)
(* thread that calls start / stop / set_interval.                          *)
(***************************************************************************)
EXTENDS Integers, Sequences, FiniteSets, TLC

VARIABLES
    fs,          \* user files: path -> file state (what os.path.exists / os.stat / open see)
    now,         \* the wall clock read by datetime.now()
    index_data,  \* FileIndexManager.index_data, the in-memory snapshot
    disk,        \* the files index_path ("index"), temp_path ("tmp"), backup_path ("bak")
    pc,          \* position of the calling thread inside add_file / remove_file / _save_index
    exc,         \* TRUE when _save_index has an exception pending (raised after finally)
    faults,      \* how many file-system failures and process deaths have happened so far
    call,        \* the call in progress or last returned: operation, argument, result,
                 \* and what the store looked like when it was entered
    rootfs,      \* watched root directory -> whether it exists (Path.exists)
    _started,    \* FileMonitor._started
    interval,    \* FileMonitor.interval, in hundredths of a second
    _observer,   \* FileMonitor._observer: its thread state, timeout and scheduled watches
    queue,       \* the event queue of the observer
    hpc,         \* position of the observer thread inside an IndexFileHandler callback
    hev,         \* the event that callback was given
    _lock,       \* IndexFileHandler._lock
    mpc,         \* position of the controlling thread inside stop / set_interval
    mcall,       \* the FileMonitor call in progress or last returned
    monitored_extensions, \* IndexFileHandler.monitored_extensions
    _pending_events,      \* IndexFileHandler._pending_events: path -> time of on_modified
    accepted,    \* the last Modified event that passed the debounce test, and when
    src_record,  \* the record the source path had when on_moved was called
    polls,       \* how often the readiness wait in progress has slept
    dpc,         \* position of a second thread that calls add_file / remove_file directly
    qpc,         \* position of a thread inside get_stats
    qres,        \* what get_stats has computed so far
    qseen,       \* the snapshots index_data went through while get_stats was running
    sres,        \* the last search call: its arguments and what it returned
    redelivered  \* the observer has delivered an event a second time

\* the variables of the IndexFileHandler besides its lock
hstate == <<monitored_extensions, _pending_events, accepted, src_record, polls>>

\* the variables of the file monitor
engine == <<rootfs, _started, interval, _observer, queue, hpc, hev, _lock, mpc, mcall, hstate>>

\* the variables of the other threads that use the store
threads == <<dpc, qpc, qres, qseen, sres, redelivered>>

vars == <<fs, now, index_data, disk, pc, exc, faults, call, engine, threads>>

----------------------------------------------------------------------------
(* Bounds of the model *)

\* the clock stops advancing at MaxClock
MaxClock == 1

\* at most MaxFaults failing file-system calls and process deaths in one run
MaxFaults == 2

----------------------------------------------------------------------------
(* Paths and user files *)

\* a path string, split the way os.path.splitext / os.path.basename split it
Paths == { [dir |-> "/w", stem |-> "a", ext |-> ".TXT"],
           [dir |-> "/w", stem |-> "b", ext |-> ".py"] }

\* the working directory of the process
Cwd == "/w"

\* the strings a caller can name a file by: its absolute path, or for one of
\* the files a path relative to the working directory
Spellings == Paths \cup { [dir |-> ".", stem |-> "a", ext |-> ".TXT"] }

\* the file a path string names: Path(path).resolve(), and what os.path.exists,
\* os.stat and open follow
Resolve(p) == [p EXCEPT !.dir = IF p.dir = "." THEN Cwd ELSE p.dir]

\* str.lower() on the extensions and sort orders that occur
Lower(s) == CASE s = ".TXT" -> ".txt"
              [] s = "DESC" -> "desc"
              [] OTHER -> s

\* os.path.splitext(file_path)[1]
Splitext(p) == p.ext

\* os.path.basename(file_path)
Basename(p) == <<p.stem, p.ext>>

\* the states a user file can be in: missing, present but not openable,
\* or readable with some content (a byte sequence) and modification time
NoFile == [kind |-> "none", content |-> <<>>, mtime |-> 0]

Readable == { [kind |-> "file", content |-> <<1, 2>>, mtime |-> 1],
              [kind |-> "file", content |-> <<2, 1>>, mtime |-> 2] }

Locked == [kind |-> "locked", content |-> <<1, 2>>, mtime |-> 1]

\* the states the environment puts each path in
FileStates(p) ==
    IF p.stem = "a" THEN {NoFile, Locked} \cup Readable
    ELSE {[kind |-> "file", content |-> <<1, 2>>, mtime |-> 1]}

\* os.path.exists(path)
Exists(p) == fs[Resolve(p)].kind # "none"

\* datetime.isoformat(): a timestamp rendered as a string
IsoFormat(t) == [iso |-> t]

\* hashlib.md5 fed chunk by chunk, then hexdigest()
RECURSIVE Md5Update(_, _)
Md5Update(h, bytes) ==
    IF bytes = <<>> THEN h
    ELSE Md5Update((h * 3 + Head(bytes)) % 7, Tail(bytes))

\* _calculate_file_hash that reports no error for a file it cannot open
_calculate_file_hash_NoError(p) ==
    [ok |-> TRUE, digest |-> IF fs[Resolve(p)].kind = "file"
                             THEN Md5Update(0, fs[Resolve(p)].content) ELSE 0]

\* _calculate_file_hash: the digest, or "error" when the file cannot be opened
_calculate_file_hash(p) ==
    IF fs[Resolve(p)].kind = "file"
    THEN [ok |-> TRUE, digest |-> Md5Update(0, fs[Resolve(p)].content)]
    ELSE [ok |-> FALSE, digest |-> 0]

----------------------------------------------------------------------------
(* The snapshot: an insertion-ordered dict of records plus index_meta *)

EmptyIndex(t) ==
    [files |-> <<>>,
     index_meta |-> [last_updated |-> IsoFormat(t), version |-> "1.0", total_files |-> 0]]

Keys(files) == { files[i].path : i \in 1..Len(files) }

HasKey(files, p) == \E i \in 1..Len(files) : files[i].path = p

Get(files, p) == files[CHOOSE i \in 1..Len(files) : files[i].path = p].info

\* files.get(path), as a sequence of at most one record
RecordOf(d, p) == IF HasKey(d.files, p) THEN <<Get(d.files, p)>> ELSE <<>>

\* DictSet that appends an entry even when the key is there already
DictSet_AlwaysAppend(files, p, info) == Append(files, [path |-> p, info |-> info])

\* files[path] = info on a Python dict: replace in place, or append a new key
DictSet(files, p, info) ==
    IF HasKey(files, p)
    THEN [i \in 1..Len(files) |->
            IF files[i].path = p THEN [path |-> p, info |-> info] ELSE files[i]]
    ELSE Append(files, [path |-> p, info |-> info])

\* DictDel that drops the oldest entry instead of the given key
DictDel_First(files, p) == IF files = <<>> THEN files ELSE Tail(files)

\* del files[path]
DictDel(files, p) == SelectSeq(files, LAMBDA e : e.path # p)

----------------------------------------------------------------------------
(* JSON text of a snapshot: a sequence of tokens; a partial write is a prefix *)

Absent == [exists |-> FALSE, text |-> <<>>]

FileOf(text) == [exists |-> TRUE, text |-> text]

\* json.dump(self.index_data, f, indent=2)
JsonDump(d) ==
    <<[tok |-> "{"]>>
    \o [i \in 1..Len(d.files) |->
          [tok |-> "file", path |-> d.files[i].path, info |-> d.files[i].info]]
    \o <<[tok |-> "meta", meta |-> d.index_meta], [tok |-> "}"]>>

\* bytes that are not valid UTF-8
BadBytes == <<[tok |-> "0xFF"]>>

\* whether reading the file in text mode decodes it (no UnicodeDecodeError)
Decodes(text) == \A i \in 1..Len(text) : text[i].tok # "0xFF"

\* whether json.load accepts the text
JsonParses(text) ==
    /\ Len(text) >= 3
    /\ text[1].tok = "{"
    /\ text[Len(text)].tok = "}"
    /\ text[Len(text) - 1].tok = "meta"
    /\ \A i \in 2..(Len(text) - 2) : text[i].tok = "file"

\* JsonLoad that loses the last record of the files object
JsonLoad_DropLast(text) ==
    [files |-> [i \in 1..(IF Len(text) > 3 THEN Len(text) - 4 ELSE 0) |->
                  [path |-> text[i + 1].path, info |-> text[i + 1].info]],
     index_meta |-> text[Len(text) - 1].meta]

\* json.load(f) of a text that parses
JsonLoad(text) ==
    [files |-> [i \in 1..(Len(text) - 3) |->
                  [path |-> text[i + 1].path, info |-> text[i + 1].info]],
     index_meta |-> text[Len(text) - 1].meta]

\* _load_or_create_index: the file's snapshot, or a fresh empty one
_load_or_create_index ==
    IF disk.index.exists /\ JsonParses(disk.index.text)
    THEN JsonLoad(disk.index.text)
    ELSE EmptyIndex(now)

----------------------------------------------------------------------------
(* The in-memory part of the mutating operations *)

\* a record whose modified field is the time of the indexing
FileInfo_StampsNow(p) ==
    [type     |-> Lower(Splitext(p)),
     size     |-> Len(fs[Resolve(p)].content),
     modified |-> IsoFormat(now),
     checksum |-> _calculate_file_hash(p).digest,
     filename |-> Basename(p)]

\* the record add_file builds from os.stat and the file's hash
FileInfo(p) ==
    [type     |-> Lower(Splitext(p)),
     size     |-> Len(fs[Resolve(p)].content),
     modified |-> IsoFormat(fs[Resolve(p)].mtime),
     checksum |-> _calculate_file_hash(p).digest,
     filename |-> Basename(p)]

\* AddRecord with total_files left as it was
AddRecord_StaleTotal(d, p, info, t) ==
    [files |-> DictSet(d.files, p, info),
     index_meta |-> [d.index_meta EXCEPT !.last_updated = IsoFormat(t)]]

\* add_file, the three assignments to index_data
AddRecord(d, p, info, t) ==
    LET files == DictSet(d.files, p, info) IN
    [files |-> files,
     index_meta |-> [d.index_meta EXCEPT !.total_files = Len(files),
                                         !.last_updated = IsoFormat(t)]]

\* remove_file, the del and the two assignments to index_meta
RemoveRecord(d, p, t) ==
    LET files == DictDel(d.files, p) IN
    [files |-> files,
     index_meta |-> [d.index_meta EXCEPT !.total_files = Len(files),
                                         !.last_updated = IsoFormat(t)]]

\* get_stats().total_files
StatsTotalFiles(d) == Len(d.files)

\* search_by_size whose upper bound is exclusive
search_by_size_Exclusive(d, min_size, max_size) ==
    SelectSeq(d.files, LAMBDA e :
        min_size <= e.info.size /\ (max_size = -1 \/ e.info.size < max_size))

\* search_by_size(min_size, max_size) without sorting; max_size = -1 stands for None
search_by_size(d, min_size, max_size) ==
    SelectSeq(d.files, LAMBDA e :
        min_size <= e.info.size /\ (max_size = -1 \/ e.info.size <= max_size))

\* search_by_type(file_type) without sorting, file_type given with its dot
search_by_type(d, file_type) ==
    SelectSeq(d.files, LAMBDA e : e.info.type = Lower(file_type))

----------------------------------------------------------------------------
(* Bookkeeping of calls (history, not program state) *)

NoAdd == [ok |-> FALSE, total |-> 0, had |-> FALSE]

\* no mutation is waiting to be persisted
AllSaved == [ok |-> FALSE, op |-> "none", path |-> CHOOSE p \in Paths : TRUE]

NoCall == [op |-> "none", path |-> CHOOSE p \in Paths : TRUE, ret |-> "none",
           total |-> 0, had |-> FALSE, predisk |-> Absent, prebak |-> FALSE,
           after |-> NoAdd, raised |-> FALSE, unsaved |-> AllSaved]

\* the mutation that the calls before this one left in memory without
\* persisting it: the one of the last call in which _save_index raised, until
\* a call returns True
Unsaved(c) ==
    IF c.raised THEN [ok |-> TRUE, op |-> c.op, path |-> c.path]
    ELSE IF c.ret = "ok" THEN AllSaved
    ELSE c.unsaved

\* a call is entered: its operation and argument; get_stats().total_files and
\* whether the path had a record at entry; the durable file at entry and
\* whether a backup file lay around; and, when the call that returned just
\* before on this store was add_file(p) returning True, what that call had
\* found at its entry; whether _save_index raised in it (not yet); and the
\* mutation left unpersisted by the calls before
Enter(op, p, ret) ==
    call' = [op |-> op, path |-> p, ret |-> ret,
             total |-> StatsTotalFiles(index_data),
             had |-> HasKey(index_data.files, p),
             predisk |-> disk.index,
             prebak |-> disk.bak.exists,
             after |-> IF call.op = "add" /\ call.ret = "ok" /\ call.path = p
                       THEN [ok |-> TRUE, total |-> call.total, had |-> call.had]
                       ELSE NoAdd,
             raised |-> FALSE,
             unsaved |-> Unsaved(call)]

----------------------------------------------------------------------------
(* The file monitor: its data *)

\* the floor of the interval, max(0.1, ...), in hundredths of a second
MinInterval == 10

\* the default of the constructor argument interval=1.0
DefaultInterval == 100

\* the directories in paths_to_monitor: the one the files live in and a second one
Roots == {"/w", "/v"}

\* a value passed as interval: a number, or something float() raises on
Number(v) == [num |-> TRUE, val |-> v]
NotANumber == [num |-> FALSE, val |-> 0]

\* the interval arguments the constructor is called with
ConstructorIntervals == {Number(5), Number(DefaultInterval)}

\* the interval arguments set_interval is called with
RequestedIntervals == {Number(5), Number(MinInterval), Number(50), NotANumber}

\* Python's max(a, b)
Max(a, b) == IF b > a THEN b ELSE a

\* a clamp that stores the requested value as it is
ClampInterval_NoFloor(r) == r.val

\* max(0.1, float(interval))
ClampInterval(r) == Max(MinInterval, r.val)

\* self._observer = None
NoObserver == [state |-> "none", timeout |-> 0, watches |-> {}]

\* Observer(timeout=self.interval): a new observer thread, not started, no watch
NewObserver(t) == [state |-> "new", timeout |-> t, watches |-> {}]

\* the observer thread is alive: it takes events from its queue and runs the handler
Dispatching(o) == o.state \in {"running", "stopping"}

\* a file-system event as watchdog delivers it; dest_path is read for a
\* FileMovedEvent only
MovedEvent(src, dest) == [kind |-> "moved", src_path |-> src, dest_path |-> dest]
Event(kind, p) == [kind |-> kind, src_path |-> p, dest_path |-> p]
NoEvent == Event("none", CHOOSE p \in Paths : TRUE)

\* self._pending_events = {}
NoPending == [p \in Paths |-> -1]

\* no Modified event has passed the debounce test yet
NoneAccepted == [path |-> CHOOSE p \in Paths : TRUE, time |-> -1]

\* no FileMonitor call has been made since the constructor, which was given r
Constructed(r) ==
    [op |-> "init", ret |-> "ok", arg |-> r, busy |-> FALSE, restart |-> FALSE,
     stopped |-> FALSE, restarted |-> FALSE]

\* the state of a FileMonitor after FileMonitor.__init__(..., interval=r)
\* whose handler was given the extensions exts
EngineInitWith(r, exts) ==
    /\ monitored_extensions = exts
    /\ _pending_events = NoPending
    /\ accepted = NoneAccepted
    /\ src_record = <<>>
    /\ polls = 0
    /\ rootfs = [d \in Roots |-> TRUE]
    /\ _started = FALSE
    /\ interval = ClampInterval(r)
    /\ _observer = NoObserver
    /\ queue = <<>>
    /\ hpc = "idle"
    /\ hev = NoEvent
    /\ _lock = "free"
    /\ mpc = "idle"
    /\ mcall = Constructed(r)

\* the extensions main() passes, as IndexFileHandler.__init__ normalises them
MainExtensions == {".txt", ".pdf", ".doc", ".docx"}

\* the FileMonitor that main() constructs
EngineInit(r) == EngineInitWith(r, MainExtensions)

\* no search has been made
NoSearch ==
    [op |-> "none", lo |-> [kind |-> "none", val |-> 0], hi |-> [kind |-> "none", val |-> 0],
     sort_by |-> "none", sort_order |-> "desc", raised |-> FALSE, results |-> <<>>]

\* what get_stats has before its first read
NoStats ==
    [total_files |-> 0, total_size |-> 0, average_size |-> 0,
     type_distribution |-> <<>>, last_updated |-> IsoFormat(0)]

\* no other thread is using the store
ThreadsInit ==
    /\ dpc = "idle"
    /\ qpc = "idle"
    /\ qres = NoStats
    /\ qseen = {}
    /\ sres = NoSearch
    /\ redelivered = FALSE

\* the snapshots seen by a get_stats in progress, d being the new value of
\* index_data
Seen(d) == IF qpc = "idle" THEN qseen ELSE qseen \cup {d}

Init ==
    /\ fs = [p \in Paths |-> IF NoFile \in FileStates(p) THEN NoFile
                                ELSE CHOOSE s \in FileStates(p) : TRUE]
    /\ now = 0
    /\ index_data = EmptyIndex(0)
    /\ disk = [index |-> Absent, tmp |-> Absent, bak |-> Absent]
    /\ pc = "idle"
    /\ exc = FALSE
    /\ faults = 0
    /\ call = NoCall
    /\ EngineInit(Number(DefaultInterval))
    /\ ThreadsInit

----------------------------------------------------------------------------
(* The environment *)

\* another program creates, rewrites, locks or deletes a user file
FsChange ==
    /\ pc = "idle"
    /\ \E p \in Paths : \E s \in FileStates(p) :
          /\ s # fs[p]
          /\ fs' = [fs EXCEPT ![p] = s]
    /\ UNCHANGED <<now, index_data, disk, pc, exc, faults, call>>
    /\ UNCHANGED <<engine, threads>>

\* time passes
Tick ==
    /\ pc \in {"idle", "down"}
    /\ now < MaxClock
    /\ now' = now + 1
    /\ UNCHANGED <<fs, index_data, disk, pc, exc, faults, call>>
    /\ UNCHANGED <<engine, threads>>

----------------------------------------------------------------------------
(* add_file and remove_file up to their call of _save_index *)

\* add_file(p) from its entry to its return False or its call of _save_index
AddFileCall(p) ==
    IF ~Exists(p) \/ ~_calculate_file_hash(p).ok
    THEN /\ Enter("add", p, "fail")
         /\ UNCHANGED <<index_data, pc>>
    ELSE /\ Enter("add", p, "pending")
         /\ index_data' = AddRecord(index_data, p, FileInfo(p), now)
         /\ pc' = "sv_backup"

\* remove_file that finds no record whatever the index holds
RemoveFileCall_Miss(p) ==
    /\ Enter("remove", p, "fail")
    /\ UNCHANGED <<index_data, pc>>

\* remove_file(p) from its entry to its return False or its call of _save_index
RemoveFileCall(p) ==
    IF HasKey(index_data.files, p)
    THEN /\ Enter("remove", p, "pending")
         /\ index_data' = RemoveRecord(index_data, p, now)
         /\ pc' = "sv_backup"
    ELSE /\ Enter("remove", p, "fail")
         /\ UNCHANGED <<index_data, pc>>

\* add_file that starts from what the durable file holds
add_file_FromDisk ==
    /\ pc = "idle"
    /\ \E p \in Paths :
          IF ~Exists(p) \/ ~_calculate_file_hash(p).ok
          THEN /\ Enter("add", p, "fail")
               /\ UNCHANGED <<index_data, pc>>
          ELSE /\ Enter("add", p, "pending")
               /\ index_data' = AddRecord(_load_or_create_index, p, FileInfo(p), now)
               /\ pc' = "sv_backup"
    /\ UNCHANGED <<fs, now, disk, exc, faults>>
    /\ UNCHANGED <<engine, threads>>

\* a direct caller (the command line, a test) calls add_file
add_file ==
    /\ pc = "idle"
    /\ \E p \in Paths : AddFileCall(p)
    /\ UNCHANGED <<fs, now, disk, exc, faults>>
    /\ UNCHANGED <<engine, threads>>

\* remove_file that stamps and saves the index also when the path has no record
remove_file_TouchOnMiss ==
    /\ pc = "idle"
    /\ \E p \in Paths :
          /\ Enter("remove", p, "pending")
          /\ index_data' = RemoveRecord(index_data, p, now)
          /\ pc' = "sv_backup"
    /\ UNCHANGED <<fs, now, disk, exc, faults>>
    /\ UNCHANGED <<engine, threads>>

\* a direct caller calls remove_file
remove_file ==
    /\ pc = "idle"
    /\ \E p \in Paths : RemoveFileCall(p)
    /\ UNCHANGED <<fs, now, disk, exc, faults>>
    /\ UNCHANGED <<engine, threads>>

----------------------------------------------------------------------------
(* _save_index, one action per file-system call; every call may fail *)

\* os.replace(src, dst) that succeeds
Replace(d, src, dst) == [d EXCEPT ![dst] = d[src], ![src] = Absent]

\* os.remove(name) that succeeds
Remove(d, name) == [d EXCEPT ![name] = Absent]

\* a file-system call fails (OSError), within the fault budget
Fails ==
    /\ faults < MaxFaults
    /\ faults' = faults + 1

Succeeds == faults' = faults

\* if os.path.exists(index_path): os.replace(index_path, backup_path); OSError is only warned about
SaveBackup ==
    /\ pc = "sv_backup"
    /\ \/ /\ disk.index.exists
          /\ disk' = Replace(disk, "index", "bak")
          /\ Succeeds
       \/ /\ disk.index.exists
          /\ disk' = disk
          /\ Fails
       \/ /\ ~disk.index.exists
          /\ disk' = disk
          /\ Succeeds
    /\ pc' = "sv_open"
    /\ UNCHANGED <<fs, now, index_data, exc, call>>
    /\ UNCHANGED <<engine, threads>>

\* open(temp_path, 'w'): truncates or creates the file, or raises
SaveOpen ==
    /\ pc = "sv_open"
    /\ \/ /\ disk' = [disk EXCEPT !.tmp = FileOf(<<>>)]
          /\ pc' = "sv_dump"
          /\ Succeeds
       \/ /\ disk' = disk
          /\ pc' = "sv_except"
          /\ Fails
    /\ UNCHANGED <<fs, now, index_data, exc, call>>
    /\ UNCHANGED <<engine, threads>>

\* SaveDump that writes the text straight into index_path
SaveDump_InPlace ==
    /\ pc = "sv_dump"
    /\ LET text == JsonDump(index_data) IN
       \/ /\ disk' = [disk EXCEPT !.index = FileOf(text)]
          /\ pc' = "sv_rmbak"
          /\ Succeeds
       \/ /\ disk' = [disk EXCEPT !.index = FileOf(SubSeq(text, 1, Len(text) - 1))]
          /\ pc' = "sv_except"
          /\ Fails
    /\ UNCHANGED <<fs, now, index_data, exc, call>>
    /\ UNCHANGED <<engine, threads>>

\* json.dump(self.index_data, f): writes the whole text, or raises part-way
SaveDump ==
    /\ pc = "sv_dump"
    /\ LET text == JsonDump(index_data) IN
       \/ /\ disk' = [disk EXCEPT !.tmp = FileOf(text)]
          /\ pc' = "sv_rename"
          /\ Succeeds
       \/ /\ disk' = [disk EXCEPT !.tmp = FileOf(SubSeq(text, 1, Len(text) - 1))]
          /\ pc' = "sv_except"
          /\ Fails
    /\ UNCHANGED <<fs, now, index_data, exc, call>>
    /\ UNCHANGED <<engine, threads>>

\* os.replace(temp_path, self.index_path)
SaveRename ==
    /\ pc = "sv_rename"
    /\ \/ /\ disk' = Replace(disk, "tmp", "index")
          /\ pc' = "sv_rmbak"
          /\ Succeeds
       \/ /\ disk' = disk
          /\ pc' = "sv_except"
          /\ Fails
    /\ UNCHANGED <<fs, now, index_data, exc, call>>
    /\ UNCHANGED <<engine, threads>>

\* if os.path.exists(backup_path): os.remove(backup_path)
SaveRemoveBackup ==
    /\ pc = "sv_rmbak"
    /\ \/ /\ disk' = Remove(disk, "bak")
          /\ pc' = "sv_finally"
          /\ Succeeds
       \/ /\ disk.bak.exists
          /\ disk' = disk
          /\ pc' = "sv_except"
          /\ Fails
    /\ UNCHANGED <<fs, now, index_data, exc, call>>
    /\ UNCHANGED <<engine, threads>>

\* SaveExcept that restores the backup but does not raise
SaveExcept_Swallow ==
    /\ pc = "sv_except"
    /\ \/ /\ disk.bak.exists
          /\ disk' = Replace(disk, "bak", "index")
       \/ disk' = disk
    /\ pc' = "sv_finally"
    /\ UNCHANGED <<fs, now, index_data, exc, faults, call>>
    /\ UNCHANGED <<engine, threads>>

\* SaveExcept that raises without restoring the backup
SaveExcept_NoRestore ==
    /\ pc = "sv_except"
    /\ exc' = TRUE
    /\ pc' = "sv_finally"
    /\ UNCHANGED <<fs, now, index_data, disk, faults, call>>
    /\ UNCHANGED <<engine, threads>>

\* except Exception: restore the backup if there is one (OSError is only
\* warned about), then raise RuntimeError
SaveExcept ==
    /\ pc = "sv_except"
    /\ \/ /\ disk.bak.exists
          /\ disk' = Replace(disk, "bak", "index")
          /\ Succeeds
       \/ /\ disk.bak.exists
          /\ disk' = disk
          /\ Fails
       \/ /\ ~disk.bak.exists
          /\ disk' = disk
          /\ Succeeds
    /\ exc' = TRUE
    /\ pc' = "sv_finally"
    /\ UNCHANGED <<fs, now, index_data, call>>
    /\ UNCHANGED <<engine, threads>>

\* finally: remove the temporary file if it exists (OSError is swallowed); then
\* _save_index returns or raises, and add_file / remove_file return True or
\* (except Exception) False
SaveFinally ==
    /\ pc = "sv_finally"
    /\ \/ /\ disk' = Remove(disk, "tmp")
          /\ Succeeds
       \/ /\ disk.tmp.exists
          /\ disk' = disk
          /\ Fails
    /\ call' = [call EXCEPT !.ret = IF exc THEN "fail" ELSE "ok", !.raised = exc]
    /\ exc' = FALSE
    /\ pc' = "idle"
    /\ UNCHANGED <<fs, now, index_data>>
    /\ UNCHANGED <<engine, threads>>

_save_index ==
    \/ SaveBackup \/ SaveOpen \/ SaveDump \/ SaveRename
    \/ SaveRemoveBackup \/ SaveExcept \/ SaveFinally

----------------------------------------------------------------------------
(* Process death and a new FileIndexManager on the same index path *)

\* the process ends (exit or crash) at any point; its memory is gone, the
\* files stay as they are.  index_data keeps the dead process's last snapshot
\* until the next construction overwrites it.
Crash ==
    /\ pc # "down"
    /\ Fails
    /\ pc' = "down"
    /\ exc' = FALSE
    /\ UNCHANGED <<fs, now, index_data, disk, call>>
    /\ UNCHANGED <<engine, threads>>

\* FileIndexManager.__init__
Construct ==
    /\ pc = "down"
    /\ disk.index.exists => Decodes(disk.index.text)
    /\ index_data' = _load_or_create_index
    /\ pc' = "idle"
    /\ call' = NoCall
    /\ UNCHANGED <<fs, now, disk, exc, faults>>
    /\ UNCHANGED <<engine, threads>>

Next ==
    \/ FsChange \/ Tick
    \/ add_file \/ remove_file
    \/ SaveBackup \/ SaveOpen \/ SaveDump \/ SaveRename
    \/ SaveRemoveBackup \/ SaveExcept \/ SaveFinally
    \/ Crash \/ Construct

Spec == Init /\ [][Next]_vars

----------------------------------------------------------------------------
(* Construction on a durable file that something else has damaged *)

\* while no store is running, the index file is damaged: its end is cut off,
\* it is emptied, or it is overwritten with bytes that are not UTF-8
CorruptIndex ==
    /\ pc = "down"
    /\ disk.index.exists
    /\ JsonParses(disk.index.text)
    /\ \E text \in {SubSeq(disk.index.text, 1, Len(disk.index.text) - 1), <<>>, BadBytes} :
          disk' = [disk EXCEPT !.index = FileOf(text)]
    /\ UNCHANGED <<fs, now, index_data, pc, exc, faults, call>>
    /\ UNCHANGED <<engine, threads>>

\* FileIndexManager.__init__ when open(self.index_path, 'r') raises OSError:
\* except OSError, then the empty index
ConstructUnreadable ==
    /\ pc = "down"
    /\ disk.index.exists
    /\ Fails
    /\ index_data' = EmptyIndex(now)
    /\ pc' = "idle"
    /\ call' = NoCall
    /\ UNCHANGED <<fs, now, disk, exc>>
    /\ UNCHANGED <<engine, threads>>

\* FileIndexManager.__init__ when json.load raises UnicodeDecodeError, which is
\* neither json.JSONDecodeError nor OSError: the constructor raises and there
\* is no store
ConstructRaises ==
    /\ pc = "down"
    /\ disk.index.exists
    /\ ~Decodes(disk.index.text)
    /\ pc' = "failed"
    /\ UNCHANGED <<fs, now, index_data, disk, exc, faults, call>>
    /\ UNCHANGED <<engine, threads>>

NextStartup ==
    \/ FsChange \/ Tick
    \/ add_file \/ remove_file
    \/ SaveBackup \/ SaveOpen \/ SaveDump \/ SaveRename
    \/ SaveRemoveBackup \/ SaveExcept \/ SaveFinally
    \/ Crash \/ Construct
    \/ CorruptIndex \/ ConstructUnreadable \/ ConstructRaises

SpecStartup == Init /\ [][NextStartup]_vars

----------------------------------------------------------------------------
(* The file monitor: environment, FileMonitor calls, handler callbacks *)

\* at most MaxQueue events wait in the observer's queue
MaxQueue == 1

\* the 1.0 of on_modified, in ticks of the clock (seconds)
DebounceWindow == 1

\* timeout=2.0 and time.sleep(0.1) of _wait_for_file_ready, in tenths of a second
ReadyTimeout == 20
PollSpacing == 1

\* the variables of the store
store == <<now, index_data, disk, pc, exc, faults, call>>

\* should_process_file that lets every path pass
should_process_file_AnySuffix(p) == TRUE

\* should_process_file(path): Path(path).suffix.lower() in self.monitored_extensions
should_process_file(p) ==
    monitored_extensions = {} \/ Lower(p.ext) \in monitored_extensions

\* a readiness wait that always runs into its timeout
FileReady_Never(p) == FALSE

\* _wait_for_file_ready finds the path present and open(path, 'rb') succeeds
FileReady(p) == fs[Resolve(p)].kind = "file"

\* another program creates or deletes a file under a watched root, or changes
\* a file that exists; the emitters of a running observer queue the creation
\* or deletion
WatchedFsChange ==
    /\ pc = "idle"
    /\ \E p \in Paths : \E s \in FileStates(p) :
          /\ s # fs[p]
          /\ fs' = [fs EXCEPT ![p] = s]
          /\ IF /\ _observer.state = "running"
                /\ p.dir \in _observer.watches
                /\ fs[p] = NoFile \/ s = NoFile
             THEN /\ Len(queue) < MaxQueue
                  /\ queue' = Append(queue, Event(IF s = NoFile THEN "deleted" ELSE "created", p))
             ELSE queue' = queue
    /\ UNCHANGED <<rootfs, _started, interval, _observer, hpc, hev, _lock, mpc, mcall>>
    /\ UNCHANGED <<store, threads, hstate>>

\* a watched root that holds none of the files is deleted or created again
RootChange ==
    /\ pc = "idle"
    /\ mpc = "idle"
    /\ \E d \in Roots :
          /\ \A p \in Paths : p.dir # d
          /\ rootfs' = [rootfs EXCEPT ![d] = ~rootfs[d]]
    /\ UNCHANGED <<_started, interval, _observer, queue, hpc, hev, _lock, mpc, mcall>>
    /\ UNCHANGED <<fs, store, threads, hstate>>

\* validate_paths(): the watched roots that do not exist
validate_paths == {d \in Roots : ~rootfs[d]}

\* start() and stop() take no argument
NoArg == Number(0)

\* a FileMonitor call is entered or returns: what it is, its argument, its
\* result so far, for stop() whether a handler callback was running when it
\* was entered, and for set_interval whether it restarts the observer (not
\* unless said otherwise)
MonCall(op, r, ret) ==
    [mcall EXCEPT !.op = op, !.arg = r, !.ret = ret,
                  !.busy = (op = "stop" /\ hpc # "idle"),
                  !.restart = FALSE]

\* start() that subscribes the roots that exist before it reports the others
StartCall_Partial(ret) ==
    \/ /\ _started
       /\ ret = "fail"
       /\ UNCHANGED <<_started, _observer, queue>>
    \/ /\ ~_started
       /\ validate_paths # {}
       /\ ret = "fail"
       /\ _observer' = [state |-> "running", timeout |-> interval,
                        watches |-> Roots \ validate_paths]
       /\ queue' = <<>>
       /\ UNCHANGED _started
    \/ /\ ~_started
       /\ validate_paths = {}
       /\ ret = "ok"
       /\ _observer' = [state |-> "running", timeout |-> interval, watches |-> Roots]
       /\ _started' = TRUE
       /\ queue' = <<>>

\* the body of start(), returning ret ("ok" for True, "fail" for False):
\* already running; invalid paths; or _create_observer, schedule each path,
\* observer.start() and _started = True, unless one of them raises
StartCall(ret) ==
    \/ /\ _started
       /\ ret = "fail"
       /\ UNCHANGED <<_started, _observer, queue>>
    \/ /\ ~_started
       /\ validate_paths # {}
       /\ ret = "fail"
       /\ UNCHANGED <<_started, _observer, queue>>
    \/ /\ ~_started
       /\ validate_paths = {}
       /\ ret = "ok"
       /\ _observer' = [state |-> "running", timeout |-> interval, watches |-> Roots]
       /\ _started' = TRUE
       /\ queue' = <<>>
    \/ /\ ~_started
       /\ validate_paths = {}
       /\ ret = "fail"
       /\ \E w \in {{}, Roots} :
             _observer' = [NewObserver(interval) EXCEPT !.watches = w]
       /\ _started' = FALSE
       /\ queue' = <<>>

\* a successful start that follows a successful stop is a restart
Restarted(ret) == mcall.restarted \/ (ret = "ok" /\ mcall.stopped)

\* the controlling thread calls start()
start ==
    /\ mpc = "idle"
    /\ \E ret \in {"ok", "fail"} :
          /\ StartCall(ret)
          /\ mcall' = [MonCall("start", NoArg, ret) EXCEPT !.restarted = Restarted(ret)]
    /\ UNCHANGED <<rootfs, interval, hpc, hev, _lock, mpc>>
    /\ UNCHANGED <<fs, store, threads, hstate>>

\* stop() that returns True without stopping anything when not running
stop_AlwaysTrue ==
    /\ mpc = "idle"
    /\ IF ~_started
       THEN /\ mcall' = MonCall("stop", NoArg, "ok")
            /\ UNCHANGED <<_observer, mpc>>
       ELSE /\ _observer' = [_observer EXCEPT !.state = "stopping"]
            /\ mcall' = MonCall("stop", NoArg, "pending")
            /\ mpc' = "stop_join"
    /\ UNCHANGED <<rootfs, _started, interval, queue, hpc, hev, _lock>>
    /\ UNCHANGED <<fs, store, threads, hstate>>

\* the controlling thread calls stop(): not running, or self._observer.stop()
stop ==
    /\ mpc = "idle"
    /\ IF ~_started
       THEN /\ mcall' = MonCall("stop", NoArg, "fail")
            /\ UNCHANGED <<_observer, mpc>>
       ELSE /\ _observer' = [_observer EXCEPT !.state = "stopping"]
            /\ mcall' = MonCall("stop", NoArg, "pending")
            /\ mpc' = "stop_join"
    /\ UNCHANGED <<rootfs, _started, interval, queue, hpc, hev, _lock>>
    /\ UNCHANGED <<fs, store, threads, hstate>>

\* Joined that leaves the running flag set
Joined_KeepsFlag(next) ==
    /\ hpc = "idle"
    /\ _observer' = [_observer EXCEPT !.state = "stopped"]
    /\ _started' = _started
    /\ queue' = <<>>
    /\ mpc' = next

\* the rest of stop() after self._observer.join() has returned, which it does
\* once the observer thread has ended; what is left in its queue is never
\* dispatched
Joined(next) ==
    /\ hpc = "idle"
    /\ _observer' = [_observer EXCEPT !.state = "stopped"]
    /\ _started' = FALSE
    /\ queue' = <<>>
    /\ mpc' = next

\* StopJoin that does not wait for the observer thread
StopJoin_NoJoin ==
    /\ mpc = "stop_join"
    /\ _observer' = [_observer EXCEPT !.state = "stopped"]
    /\ _started' = FALSE
    /\ queue' = <<>>
    /\ mpc' = "idle"
    /\ mcall' = [mcall EXCEPT !.ret = "ok", !.stopped = TRUE]
    /\ UNCHANGED <<rootfs, interval, hpc, hev, _lock>>
    /\ UNCHANGED <<fs, store, threads, hstate>>

\* stop(): self._observer.join(); self._started = False; return True
StopJoin ==
    /\ mpc = "stop_join"
    /\ Joined("idle")
    /\ mcall' = [mcall EXCEPT !.ret = "ok", !.stopped = TRUE]
    /\ UNCHANGED <<rootfs, interval, hpc, hev, _lock>>
    /\ UNCHANGED <<fs, store, threads, hstate>>

\* set_interval that swaps the interval of a running monitor without a restart
set_interval_LiveSwap ==
    /\ mpc = "idle"
    /\ \E r \in RequestedIntervals :
          IF ~r.num
          THEN /\ mcall' = MonCall("set_interval", r, "fail")
               /\ UNCHANGED <<interval, _observer, mpc>>
          ELSE /\ interval' = ClampInterval(r)
               /\ mcall' = MonCall("set_interval", r, "ok")
               /\ UNCHANGED <<_observer, mpc>>
    /\ UNCHANGED <<rootfs, _started, queue, hpc, hev, _lock>>
    /\ UNCHANGED <<fs, store, threads, hstate>>

\* the controlling thread calls set_interval(r): float() raises; the clamped
\* value is the current one; or the new value is stored and, when running,
\* self.stop() is entered
set_interval ==
    /\ mpc = "idle"
    /\ \E r \in RequestedIntervals :
          IF ~r.num
          THEN /\ mcall' = MonCall("set_interval", r, "fail")
               /\ UNCHANGED <<interval, _observer, mpc>>
          ELSE IF ClampInterval(r) = interval
          THEN /\ mcall' = MonCall("set_interval", r, "ok")
               /\ UNCHANGED <<interval, _observer, mpc>>
          ELSE /\ interval' = ClampInterval(r)
               /\ IF ~_started
                  THEN /\ mcall' = MonCall("set_interval", r, "ok")
                       /\ UNCHANGED <<_observer, mpc>>
                  ELSE /\ _observer' = [_observer EXCEPT !.state = "stopping"]
                       /\ mcall' = [MonCall("set_interval", r, "pending")
                                       EXCEPT !.restart = TRUE]
                       /\ mpc' = "si_join"
    /\ UNCHANGED <<rootfs, _started, queue, hpc, hev, _lock>>
    /\ UNCHANGED <<fs, store, threads, hstate>>

\* set_interval: the rest of its self.stop()
SetIntervalJoin ==
    /\ mpc = "si_join"
    /\ Joined("si_start")
    /\ mcall' = [mcall EXCEPT !.stopped = TRUE]
    /\ UNCHANGED <<rootfs, interval, hpc, hev, _lock>>
    /\ UNCHANGED <<fs, store, threads, hstate>>

\* set_interval: return self.start()
SetIntervalStart ==
    /\ mpc = "si_start"
    /\ \E ret \in {"ok", "fail"} :
          /\ StartCall(ret)
          /\ mcall' = [mcall EXCEPT !.ret = ret, !.restarted = Restarted(ret)]
    /\ mpc' = "idle"
    /\ UNCHANGED <<rootfs, interval, hpc, hev, _lock>>
    /\ UNCHANGED <<fs, store, threads, hstate>>

\* str(Path(path).resolve())
_normalize_path(p) == Resolve(p)

\* the test of on_modified at time t: an entry for the path is in
\* _pending_events and is less than 1.0 s old
Debounced(path, t) ==
    /\ _pending_events[path] # -1
    /\ t - _pending_events[path] < DebounceWindow

\* the observer thread takes the next event and calls the callback of its
\* kind.  on_created, on_modified and on_deleted return at once when the
\* extension is not monitored; on_modified also when the path is debounced,
\* and else it records the time; on_moved tests nothing before the lock
Dispatch ==
    /\ Dispatching(_observer)
    /\ hpc = "idle"
    /\ queue # <<>>
    /\ queue' = Tail(queue)
    /\ LET e == Head(queue)
           path == _normalize_path(e.src_path)
           ev == [e EXCEPT !.src_path = path,
                           !.dest_path = _normalize_path(e.dest_path)]
       IN  IF e.kind = "moved"
           THEN /\ hev' = ev
                /\ hpc' = "h_lock"
                /\ src_record' = RecordOf(index_data, path)
                /\ UNCHANGED <<_pending_events, accepted>>
           ELSE IF ~should_process_file(path)
           THEN UNCHANGED <<hpc, hev, _pending_events, accepted, src_record>>
           ELSE IF e.kind = "modified"
           THEN IF Debounced(path, now)
                THEN UNCHANGED <<hpc, hev, _pending_events, accepted, src_record>>
                ELSE /\ _pending_events' = [_pending_events EXCEPT ![path] = now]
                     /\ accepted' = [path |-> path, time |-> now]
                     /\ hev' = ev
                     /\ hpc' = "h_wait"
                     /\ UNCHANGED src_record
           ELSE /\ hev' = ev
                /\ hpc' = IF e.kind = "created" THEN "h_wait" ELSE "h_lock"
                /\ UNCHANGED <<_pending_events, accepted, src_record>>
    /\ UNCHANGED <<rootfs, _started, interval, _observer, _lock, mpc, mcall>>
    /\ UNCHANGED <<fs, store, threads, monitored_extensions, polls>>

\* a readiness wait whose result is not looked at
WaitReady_Proceeds ==
    /\ hpc = "h_wait"
    /\ hpc' = "h_lock"
    /\ UNCHANGED <<rootfs, _started, interval, _observer, queue, hev, _lock, mpc, mcall>>
    /\ UNCHANGED <<fs, store, threads, hstate>>

\* on_created, on_modified: _wait_for_file_ready returns True, or returns
\* False after its timeout and the callback returns
WaitReady ==
    /\ hpc = "h_wait"
    /\ IF FileReady(hev.src_path)
       THEN /\ hpc' = "h_lock"
            /\ hev' = hev
       ELSE /\ hpc' = "idle"
            /\ hev' = NoEvent
    /\ UNCHANGED <<rootfs, _started, interval, _observer, queue, _lock, mpc, mcall>>
    /\ UNCHANGED <<fs, store, threads, hstate>>

\* with self._lock:
AcquireLock ==
    /\ hpc = "h_lock"
    /\ _lock = "free"
    /\ _lock' = "handler"
    /\ hpc' = "h_call"
    /\ UNCHANGED <<rootfs, _started, interval, _observer, queue, hev, mpc, mcall>>
    /\ UNCHANGED <<fs, store, threads, hstate>>

\* the first store call inside the lock.
\* on_created: if os.path.exists(path): add_file(path);
\* on_deleted: remove_file(path);
\* on_modified: if os.path.exists(path): remove_file(path), add_file to follow;
\* on_moved: if should_process_file(src_path): remove_file(src_path), and the
\* destination is looked at next if should_process_file(dest_path)
HandlerCall ==
    /\ hpc = "h_call"
    /\ pc = "idle"
    /\ CASE hev.kind = "deleted" ->
              /\ RemoveFileCall(hev.src_path)
              /\ hpc' = "h_ret"
         [] hev.kind = "created" ->
              /\ IF Exists(hev.src_path) THEN AddFileCall(hev.src_path)
                 ELSE UNCHANGED <<call, index_data, pc>>
              /\ hpc' = "h_ret"
         [] hev.kind = "modified" ->
              IF Exists(hev.src_path)
              THEN /\ RemoveFileCall(hev.src_path)
                   /\ hpc' = "h_call2"
              ELSE /\ UNCHANGED <<call, index_data, pc>>
                   /\ hpc' = "h_ret"
         [] hev.kind = "moved" ->
              /\ IF should_process_file(hev.src_path)
                 THEN RemoveFileCall(hev.src_path)
                 ELSE UNCHANGED <<call, index_data, pc>>
              /\ hpc' = IF should_process_file(hev.dest_path) THEN "h_wait2"
                        ELSE "h_ret"
    /\ qseen' = Seen(index_data')
    /\ UNCHANGED <<rootfs, _started, interval, _observer, queue, hev, _lock, mpc, mcall>>
    /\ UNCHANGED <<fs, now, disk, exc, faults, dpc, qpc, qres, sres, redelivered, hstate>>

\* on_moved that calls add_file(dest_path) without waiting for the file
WaitDestReady_NoWait ==
    /\ hpc = "h_wait2"
    /\ pc = "idle"
    /\ hpc' = "h_call2"
    /\ UNCHANGED <<rootfs, _started, interval, _observer, queue, hev, _lock, mpc, mcall>>
    /\ UNCHANGED <<fs, store, threads, hstate>>

\* on_moved, still holding the lock: _wait_for_file_ready(dest_path) returns
\* True, or False after its timeout and nothing is added
WaitDestReady ==
    /\ hpc = "h_wait2"
    /\ pc = "idle"
    /\ hpc' = IF FileReady(hev.dest_path) THEN "h_call2" ELSE "h_ret"
    /\ UNCHANGED <<rootfs, _started, interval, _observer, queue, hev, _lock, mpc, mcall>>
    /\ UNCHANGED <<fs, store, threads, hstate>>

\* a second step that returns without calling add_file
HandlerCall2_SkipsAdd ==
    /\ hpc = "h_call2"
    /\ pc = "idle"
    /\ hpc' = "h_ret"
    /\ UNCHANGED <<rootfs, _started, interval, _observer, queue, hev, _lock, mpc, mcall>>
    /\ UNCHANGED <<fs, store, threads, hstate>>

\* the second store call inside the lock.
\* on_modified: add_file(path); on_moved: add_file(dest_path)
HandlerCall2 ==
    /\ hpc = "h_call2"
    /\ pc = "idle"
    /\ AddFileCall(IF hev.kind = "moved" THEN hev.dest_path ELSE hev.src_path)
    /\ hpc' = "h_ret"
    /\ qseen' = Seen(index_data')
    /\ UNCHANGED <<rootfs, _started, interval, _observer, queue, hev, _lock, mpc, mcall>>
    /\ UNCHANGED <<fs, now, disk, exc, faults, dpc, qpc, qres, sres, redelivered, hstate>>

\* a return that leaves the lock held when the store call has failed
ReleaseLock_HeldOnFailure ==
    /\ hpc = "h_ret"
    /\ pc = "idle"
    /\ _lock' = IF call.ret = "fail" THEN _lock ELSE "free"
    /\ hpc' = "idle"
    /\ hev' = NoEvent
    /\ _pending_events' = IF hev.kind = "modified"
                          THEN [_pending_events EXCEPT ![hev.src_path] = -1]
                          ELSE _pending_events
    /\ UNCHANGED <<rootfs, _started, interval, _observer, queue, mpc, mcall>>
    /\ src_record' = <<>>
    /\ UNCHANGED <<fs, store, threads, monitored_extensions, accepted, polls>>

\* the store call has returned (a False is logged); the with block releases
\* the lock and the callback returns, on_modified after deleting the path from
\* _pending_events
ReleaseLock ==
    /\ hpc = "h_ret"
    /\ pc = "idle"
    /\ _lock' = "free"
    /\ hpc' = "idle"
    /\ hev' = NoEvent
    /\ _pending_events' = IF hev.kind = "modified"
                          THEN [_pending_events EXCEPT ![hev.src_path] = -1]
                          ELSE _pending_events
    /\ UNCHANGED <<rootfs, _started, interval, _observer, queue, mpc, mcall>>
    /\ src_record' = <<>>
    /\ UNCHANGED <<fs, store, threads, monitored_extensions, accepted, polls>>

\* a FileMonitor constructed with any interval on a fresh store; one
\* file-system call of the store may fail in a run
InitMon ==
    /\ fs = [p \in Paths |-> IF NoFile \in FileStates(p) THEN NoFile
                                ELSE CHOOSE s \in FileStates(p) : TRUE]
    /\ now = 0
    /\ index_data = EmptyIndex(0)
    /\ disk = [index |-> Absent, tmp |-> Absent, bak |-> Absent]
    /\ pc = "idle"
    /\ exc = FALSE
    /\ faults = MaxFaults - 1
    /\ call = NoCall
    /\ \E r \in ConstructorIntervals : EngineInit(r)
    /\ ThreadsInit

NextMon ==
    \/ WatchedFsChange \/ RootChange
    \/ start \/ stop \/ StopJoin
    \/ set_interval \/ SetIntervalJoin \/ SetIntervalStart
    \/ Dispatch \/ WaitReady \/ AcquireLock \/ HandlerCall \/ ReleaseLock
    \/ SaveBackup \/ SaveOpen \/ SaveDump \/ SaveRename
    \/ SaveRemoveBackup \/ SaveExcept \/ SaveFinally

SpecMon == InitMon /\ [][NextMon]_vars

----------------------------------------------------------------------------
(* The four callbacks of the handler, with either filter.  The clock does    *)
(* not advance here: every event falls in the debounce window of the one      *)
(* before it, and an entry of _pending_events that has expired lets           *)
(* on_modified do what it does when there is no entry.                        *)

\* the states another program puts each path in when every kind of event is
\* looked at
EventFileStates(p) ==
    IF p.stem = "a" THEN {NoFile, Locked} \cup Readable
    ELSE {NoFile, [kind |-> "file", content |-> <<1, 2>>, mtime |-> 1]}

\* the kind of the event an emitter reports for a path that went from state
\* s to state t
EventKind(s, t) ==
    IF s = NoFile THEN "created"
    ELSE IF t = NoFile THEN "deleted"
    ELSE "modified"

\* the observer is running and watches the directory of the path
Watched(p) == _observer.state = "running" /\ p.dir \in _observer.watches

\* another program creates, rewrites, locks, unlocks or deletes a file of a
\* watched directory, or renames it to a path that is free, while the observer
\* runs; the emitters queue the event
FsEvent ==
    /\ pc = "idle"
    /\ Len(queue) < MaxQueue
    /\ \/ \E p \in Paths : \E s \in EventFileStates(p) :
             /\ Watched(p)
             /\ s # fs[p]
             /\ fs' = [fs EXCEPT ![p] = s]
             /\ queue' = Append(queue, Event(EventKind(fs[p], s), p))
       \/ \E src \in Paths : \E dest \in Paths \ {src} :
             /\ Watched(src)
             /\ fs[src] # NoFile
             /\ fs[dest] = NoFile
             /\ fs' = [fs EXCEPT ![dest] = fs[src], ![src] = NoFile]
             /\ queue' = Append(queue, MovedEvent(src, dest))
    /\ UNCHANGED <<rootfs, _started, interval, _observer, hpc, hev, _lock, mpc, mcall>>
    /\ UNCHANGED <<store, threads, hstate>>

\* a file that exists and holds no byte
EmptyFile == [kind |-> "file", content |-> <<>>, mtime |-> 1]

\* another program creates an empty file in a watched directory, or truncates
\* one, while the observer runs
FsEventEmpty ==
    /\ pc = "idle"
    /\ Len(queue) < MaxQueue
    /\ \E p \in Paths :
          /\ Watched(p)
          /\ fs[p] # EmptyFile
          /\ fs' = [fs EXCEPT ![p] = EmptyFile]
          /\ queue' = Append(queue, Event(EventKind(fs[p], EmptyFile), p))
    /\ UNCHANGED <<rootfs, _started, interval, _observer, hpc, hev, _lock, mpc, mcall>>
    /\ UNCHANGED <<store, threads, hstate>>

\* the observer delivers the pending Created, Deleted or Moved event a second
\* time
Redeliver ==
    /\ ~redelivered
    /\ hpc = "idle"
    /\ pc = "idle"
    /\ Len(queue) = 1
    /\ queue[1].kind \in {"created", "deleted", "moved"}
    /\ queue' = <<queue[1], queue[1]>>
    /\ redelivered' = TRUE
    /\ UNCHANGED <<rootfs, _started, interval, _observer, hpc, hev, _lock, mpc, mcall>>
    /\ UNCHANGED <<fs, store, dpc, qpc, qres, qseen, sres, hstate>>

\* the file system changes while the observer has nothing to do and no event
\* has been delivered twice
FsEventQuiet ==
    /\ ~redelivered
    /\ hpc = "idle"
    /\ queue = <<>>
    /\ FsEvent

\* the filters a handler is constructed with: none, or the one of main()
Filters == {{}, MainExtensions}

\* a FileMonitor with the default interval and either filter on a fresh
\* store whose file-system calls all succeed
InitEvents ==
    /\ fs = [p \in Paths |-> NoFile]
    /\ now = 0
    /\ index_data = EmptyIndex(0)
    /\ disk = [index |-> Absent, tmp |-> Absent, bak |-> Absent]
    /\ pc = "idle"
    /\ exc = FALSE
    /\ faults = MaxFaults
    /\ call = NoCall
    /\ \E exts \in Filters : EngineInitWith(Number(DefaultInterval), exts)
    /\ ThreadsInit

NextEvents ==
    \/ FsEvent \/ start
    \/ Dispatch \/ WaitReady \/ AcquireLock
    \/ HandlerCall \/ WaitDestReady \/ HandlerCall2 \/ ReleaseLock
    \/ SaveBackup \/ SaveOpen \/ SaveDump \/ SaveRename
    \/ SaveRemoveBackup \/ SaveFinally

SpecEvents == InitEvents /\ [][NextEvents]_vars

\* the callbacks when files may also be empty
NextReady == NextEvents \/ FsEventEmpty

SpecReady == InitEvents /\ [][NextReady]_vars

\* one round of the loop of _wait_for_file_ready(path) for a wait that has
\* slept polls times: the time is up and it returns False (next position
\* no); the file opens and it returns True (next position yes); or it sleeps
PollStep(path, yes, no) ==
    IF polls * PollSpacing >= ReadyTimeout
    THEN /\ hpc' = no
         /\ polls' = 0
    ELSE IF FileReady(path)
    THEN /\ hpc' = yes
         /\ polls' = 0
    ELSE /\ hpc' = hpc
         /\ polls' = polls + 1

\* a readiness wait that polls until the file opens
PollReady_NoTimeout ==
    /\ hpc = "h_wait"
    /\ IF FileReady(hev.src_path)
       THEN hpc' = "h_lock" /\ polls' = 0
       ELSE hpc' = hpc /\ polls' = polls
    /\ hev' = hev
    /\ UNCHANGED <<rootfs, _started, interval, _observer, queue, _lock, mpc, mcall>>
    /\ UNCHANGED <<fs, store, threads, monitored_extensions, _pending_events, accepted,
                   src_record>>

\* on_created, on_modified: the readiness wait, round by round
PollReady ==
    /\ hpc = "h_wait"
    /\ PollStep(hev.src_path, "h_lock", "idle")
    /\ hev' = IF hpc' = "idle" THEN NoEvent ELSE hev
    /\ UNCHANGED <<rootfs, _started, interval, _observer, queue, _lock, mpc, mcall>>
    /\ UNCHANGED <<fs, store, threads, monitored_extensions, _pending_events, accepted,
                   src_record>>

\* on_moved: the readiness wait for the destination, round by round
PollDestReady ==
    /\ hpc = "h_wait2"
    /\ pc = "idle"
    /\ PollStep(hev.dest_path, "h_call2", "h_ret")
    /\ UNCHANGED <<rootfs, _started, interval, _observer, queue, hev, _lock, mpc, mcall>>
    /\ UNCHANGED <<fs, store, threads, monitored_extensions, _pending_events, accepted,
                   src_record>>

\* the callbacks with every round of the readiness waits a step, no filter
InitWait ==
    /\ fs = [p \in Paths |-> NoFile]
    /\ now = 0
    /\ index_data = EmptyIndex(0)
    /\ disk = [index |-> Absent, tmp |-> Absent, bak |-> Absent]
    /\ pc = "idle"
    /\ exc = FALSE
    /\ faults = MaxFaults
    /\ call = NoCall
    /\ EngineInitWith(Number(DefaultInterval), {})
    /\ ThreadsInit

\* a step of the observer thread when the waits are taken round by round
ObserverThreadPolling ==
    \/ Dispatch \/ PollReady \/ AcquireLock
    \/ HandlerCall \/ PollDestReady \/ HandlerCall2 \/ ReleaseLock
    \/ SaveBackup \/ SaveOpen \/ SaveDump \/ SaveRename
    \/ SaveRemoveBackup \/ SaveFinally

NextWait == FsEvent \/ start \/ ObserverThreadPolling

SpecWait == InitWait /\ [][NextWait]_vars /\ WF_vars(ObserverThreadPolling)

\* the same FileMonitor with no filter, on a store of which one file-system
\* call may fail in a run
InitEventsFaulty ==
    /\ fs = [p \in Paths |-> NoFile]
    /\ now = 0
    /\ index_data = EmptyIndex(0)
    /\ disk = [index |-> Absent, tmp |-> Absent, bak |-> Absent]
    /\ pc = "idle"
    /\ exc = FALSE
    /\ faults = MaxFaults - 1
    /\ call = NoCall
    /\ EngineInitWith(Number(DefaultInterval), {})
    /\ ThreadsInit

NextEventsFaulty ==
    \/ FsEvent \/ start
    \/ Dispatch \/ WaitReady \/ AcquireLock
    \/ HandlerCall \/ WaitDestReady \/ HandlerCall2 \/ ReleaseLock
    \/ SaveBackup \/ SaveOpen \/ SaveDump \/ SaveRename
    \/ SaveRemoveBackup \/ SaveExcept \/ SaveFinally

SpecEventsFaulty == InitEventsFaulty /\ [][NextEventsFaulty]_vars

\* a step of the observer thread: it takes an event, or goes on in the
\* callback it is in, the store call of that callback included
ObserverThread ==
    \/ Dispatch \/ WaitReady \/ AcquireLock
    \/ HandlerCall \/ WaitDestReady \/ HandlerCall2 \/ ReleaseLock
    \/ SaveBackup \/ SaveOpen \/ SaveDump \/ SaveRename
    \/ SaveRemoveBackup \/ SaveFinally

\* the observer thread is scheduled: it does not stand still forever while it
\* has a step to take
SpecEventsFair == SpecEvents /\ WF_vars(ObserverThread)

\* the callbacks when an event may be delivered twice, the file system
\* changing only between two handlings and the clock running
NextTwice ==
    \/ FsEventQuiet \/ Redeliver \/ Tick
    \/ start
    \/ ObserverThread

SpecTwice == InitWait /\ [][NextTwice]_vars

----------------------------------------------------------------------------
(* Other threads on the store of a running monitor.  The second caller's     *)
(* _save_index is taken as one step, and only while the handler is not inside *)
(* its own: what two interleaved _save_index runs do to the three files is    *)
(* left out, so this part shows behaviours of the program, not all of them.   *)

\* sum(info["size"] for info in files.values())
RECURSIVE SumSizes(_)
SumSizes(files) ==
    IF files = <<>> THEN 0
    ELSE Head(files).info.size + SumSizes(Tail(files))

\* type_counter: extension -> number of records, for the extensions that occur
TypeCounter(files) ==
    [t \in {files[i].info.type : i \in 1..Len(files)} |->
        Cardinality({i \in 1..Len(files) : files[i].info.type = t})]

\* int(total_size / len(files)) if files else 0
AverageSize(total_size, n) == IF n = 0 THEN 0 ELSE total_size \div n

\* get_stats() computed on one snapshot d
get_stats(d) ==
    [total_files |-> Len(d.files),
     total_size |-> SumSizes(d.files),
     average_size |-> AverageSize(SumSizes(d.files), Len(d.files)),
     type_distribution |-> TypeCounter(d.files),
     last_updated |-> d.index_meta.last_updated]

\* a second thread calls add_file(p) or remove_file(p) on the store, taking
\* no lock: the call up to its _save_index
DirectCall ==
    /\ dpc = "idle"
    /\ \E p \in Paths :
          \/ /\ Exists(p)
             /\ _calculate_file_hash(p).ok
             /\ index_data' = AddRecord(index_data, p, FileInfo(p), now)
          \/ /\ HasKey(index_data.files, p)
             /\ index_data' = RemoveRecord(index_data, p, now)
    /\ dpc' = "d_save"
    /\ qseen' = Seen(index_data')
    /\ UNCHANGED <<fs, now, disk, pc, exc, faults, call, engine, qpc, qres, sres, redelivered>>

\* the _save_index of that call, when every step of it succeeds
DirectSave ==
    /\ dpc = "d_save"
    /\ pc = "idle"
    /\ disk' = [index |-> FileOf(JsonDump(index_data)), tmp |-> Absent, bak |-> Absent]
    /\ dpc' = "idle"
    /\ UNCHANGED <<fs, now, index_data, pc, exc, faults, call, engine, qpc, qres, qseen, sres, redelivered>>

\* get_stats: files = self.index_data["files"]; total_size = sum(...)
GetStatsSum ==
    /\ qpc = "idle"
    /\ qres' = [NoStats EXCEPT !.total_size = SumSizes(index_data.files)]
    /\ qseen' = {index_data}
    /\ qpc' = "q_types"
    /\ UNCHANGED <<fs, store, engine, dpc, sres, redelivered>>

\* get_stats: the type_counter loop over files.values()
GetStatsTypes ==
    /\ qpc = "q_types"
    /\ qres' = [qres EXCEPT !.type_distribution = TypeCounter(index_data.files)]
    /\ qpc' = "q_return"
    /\ UNCHANGED <<fs, store, engine, dpc, qseen, sres, redelivered>>

\* get_stats: avg_size and the returned dict, which reads len(files) and
\* index_meta["last_updated"]
GetStatsReturn ==
    /\ qpc = "q_return"
    /\ qres' = [qres EXCEPT
                  !.total_files = Len(index_data.files),
                  !.average_size = AverageSize(qres.total_size, Len(index_data.files)),
                  !.last_updated = index_data.index_meta.last_updated]
    /\ qpc' = "idle"
    /\ qseen' = {}
    /\ UNCHANGED <<fs, store, engine, dpc, sres, redelivered>>

\* a FileMonitor with the default interval on a fresh store; one file-system
\* call of the store may fail in a run
InitConc ==
    /\ fs = [p \in Paths |-> IF NoFile \in FileStates(p) THEN NoFile
                                ELSE CHOOSE s \in FileStates(p) : TRUE]
    /\ now = 0
    /\ index_data = EmptyIndex(0)
    /\ disk = [index |-> Absent, tmp |-> Absent, bak |-> Absent]
    /\ pc = "idle"
    /\ exc = FALSE
    /\ faults = MaxFaults - 1
    /\ call = NoCall
    /\ EngineInit(Number(DefaultInterval))
    /\ ThreadsInit

NextConc ==
    \/ WatchedFsChange \/ start
    \/ Dispatch \/ WaitReady \/ AcquireLock \/ HandlerCall \/ ReleaseLock
    \/ SaveBackup \/ SaveOpen \/ SaveDump \/ SaveRename
    \/ SaveRemoveBackup \/ SaveExcept \/ SaveFinally
    \/ DirectCall \/ DirectSave

SpecConc == InitConc /\ [][NextConc]_vars

\* a thread in get_stats while another thread mutates the store
NextQuery ==
    \/ FsChange
    \/ DirectCall \/ DirectSave
    \/ GetStatsSum \/ GetStatsTypes \/ GetStatsReturn

SpecQuery == Init /\ [][NextQuery]_vars

----------------------------------------------------------------------------
(* The searches: pure functions of the snapshot, applied once to a snapshot  *)
(* of up to three records with the arguments a caller can pass               *)

\* a bound passed to a search: None; a size; a datetime or a string
\* _parse_date accepts (the time it stands for); or a string that _parse_date
\* raises ValueError on
NoBound == [kind |-> "none", val |-> 0]
SizeOf(n) == [kind |-> "size", val |-> n]
DateOf(t) == [kind |-> "date", val |-> t]
BadDate == [kind |-> "bad", val |-> 0]

\* search_by_date(start_date, end_date) without sorting, both arguments
\* parsed: the records whose "modified" string lies between the ISO strings
\* of the bounds that are given
search_by_date(d, start_date, end_date) ==
    SelectSeq(d.files, LAMBDA e :
        /\ start_date.kind = "none" \/ e.info.modified.iso >= IsoFormat(start_date.val).iso
        /\ end_date.kind = "none" \/ e.info.modified.iso <= IsoFormat(end_date.val).iso)

\* the order of the lower-cased filenames that occur
NameKey(filename) == IF filename[1] = "a" THEN 1 ELSE 2

\* the key functions of _apply_sorting
SortKey(sort_by, e) ==
    CASE sort_by = "date" -> e.info.modified.iso
      [] sort_by = "size" -> e.info.size
      [] sort_by = "name" -> NameKey(e.info.filename)

\* sorted() puts x before y: its key is smaller, or larger when reversed
Before(sort_by, reverse, x, y) ==
    IF reverse THEN SortKey(sort_by, x) > SortKey(sort_by, y)
    ELSE SortKey(sort_by, x) < SortKey(sort_by, y)

\* x put into a sorted list behind every item it does not come before
RECURSIVE Insert(_, _, _, _)
Insert(sorted, x, sort_by, reverse) ==
    IF sorted = <<>> THEN <<x>>
    ELSE IF Before(sort_by, reverse, x, Head(sorted))
    THEN <<x>> \o sorted
    ELSE <<Head(sorted)>> \o Insert(Tail(sorted), x, sort_by, reverse)

\* a sort that puts each item in front of the items with the same key
RECURSIVE Sorted_TiesReversed(_, _, _)
Sorted_TiesReversed(items, sort_by, reverse) ==
    IF items = <<>> THEN <<>>
    ELSE Insert(Sorted_TiesReversed(Tail(items), sort_by, reverse),
                Head(items), sort_by, reverse)

\* sorted(items, key=..., reverse=reverse): stable in both directions
RECURSIVE Sorted(_, _, _)
Sorted(items, sort_by, reverse) ==
    IF items = <<>> THEN <<>>
    ELSE Insert(Sorted(SubSeq(items, 1, Len(items) - 1), sort_by, reverse),
                items[Len(items)], sort_by, reverse)

\* _apply_sorting(results, sort_by, sort_order), sort_by "none" for None
_apply_sorting(results, sort_by, sort_order) ==
    IF sort_by = "none" \/ results = <<>> THEN results
    ELSE IF sort_by \in {"date", "size", "name"}
    THEN Sorted(results, sort_by, Lower(sort_order) = "desc")
    ELSE results

\* the values of the arguments sort_by and sort_order
SortBys == {"none", "date", "size", "name", "type"}
SortOrders == {"asc", "desc", "DESC"}

\* the sizes and modification times of the records searched, and the bounds
\* passed (-1 for max_size=None)
SearchSizes == {1, 2}
SearchTimes == {0, 1}

\* the snapshots searched: up to three records, in any order of insertion
SearchEntries ==
    { [path |-> p,
       info |-> [type |-> Lower(Splitext(p)), size |-> sz, modified |-> IsoFormat(t),
                 checksum |-> 0, filename |-> Basename(p)]] :
      p \in Spellings, sz \in SearchSizes, t \in SearchTimes }

SearchIndexes ==
    { [files |-> f,
       index_meta |-> [last_updated |-> IsoFormat(0), version |-> "1.0",
                       total_files |-> Len(f)]] :
      f \in { g \in UNION { [1..n -> SearchEntries] : n \in 0..3 } :
                \A i, j \in 1..Len(g) : i # j => g[i].path # g[j].path } }

\* search_by_size(min_size, max_size, sort_by, sort_order)
SearchBySize ==
    /\ sres.op = "none"
    /\ \E lo \in SearchSizes \cup {0, 3} : \E hi \in SearchSizes \cup {-1, 0} :
       \E sb \in SortBys : \E so \in SortOrders :
          sres' = [op |-> "size", lo |-> SizeOf(lo),
                   hi |-> IF hi = -1 THEN NoBound ELSE SizeOf(hi),
                   sort_by |-> sb, sort_order |-> so, raised |-> FALSE,
                   results |-> _apply_sorting(search_by_size(index_data, lo, hi), sb, so)]
    /\ UNCHANGED <<fs, store, engine, dpc, qpc, qres, qseen, redelivered>>

\* search_by_date(start_date, end_date, sort_by, sort_order): ValueError when
\* a string does not parse
SearchByDate ==
    /\ sres.op = "none"
    /\ \E lo, hi \in {NoBound, BadDate} \cup {DateOf(t) : t \in SearchTimes} :
       \E sb \in SortBys : \E so \in SortOrders :
          sres' = [op |-> "date", lo |-> lo, hi |-> hi, sort_by |-> sb,
                   sort_order |-> so,
                   raised |-> (lo = BadDate \/ hi = BadDate),
                   results |-> IF lo = BadDate \/ hi = BadDate THEN <<>>
                               ELSE _apply_sorting(search_by_date(index_data, lo, hi),
                                                   sb, so)]
    /\ UNCHANGED <<fs, store, engine, dpc, qpc, qres, qseen, redelivered>>

\* a store that holds one of the snapshots, saved
InitSearch ==
    /\ fs = [p \in Paths |-> IF NoFile \in FileStates(p) THEN NoFile
                                ELSE CHOOSE s \in FileStates(p) : TRUE]
    /\ now = 0
    /\ index_data \in SearchIndexes
    /\ disk = [index |-> FileOf(JsonDump(index_data)), tmp |-> Absent, bak |-> Absent]
    /\ pc = "idle"
    /\ exc = FALSE
    /\ faults = 0
    /\ call = NoCall
    /\ EngineInit(Number(DefaultInterval))
    /\ ThreadsInit

NextSearch == SearchBySize \/ SearchByDate

SpecSearch == InitSearch /\ [][NextSearch]_vars

----------------------------------------------------------------------------
(* The add command of the command line: each run constructs a store on the  *)
(* index file and calls add_file with the path as it was typed.  Every save  *)
(* succeeds here, so the store a run constructs holds what the run before   *)
(* left in memory.                                                           *)

\* cli add <path>: index = FileIndexManager(); index.add_file(args.path)
CliAdd ==
    /\ pc = "idle"
    /\ \E p \in Spellings : AddFileCall(p)
    /\ UNCHANGED <<fs, now, disk, exc, faults>>
    /\ UNCHANGED <<engine, threads>>

\* a fresh store whose file-system calls all succeed
InitKeys ==
    /\ fs = [p \in Paths |-> IF NoFile \in FileStates(p) THEN NoFile
                                ELSE CHOOSE s \in FileStates(p) : TRUE]
    /\ now = 0
    /\ index_data = EmptyIndex(0)
    /\ disk = [index |-> Absent, tmp |-> Absent, bak |-> Absent]
    /\ pc = "idle"
    /\ exc = FALSE
    /\ faults = MaxFaults
    /\ call = NoCall
    /\ EngineInit(Number(DefaultInterval))
    /\ ThreadsInit

NextKeys ==
    \/ FsChange \/ Tick
    \/ CliAdd \/ remove_file
    \/ SaveBackup \/ SaveOpen \/ SaveDump \/ SaveRename
    \/ SaveRemoveBackup \/ SaveFinally

SpecKeys == InitKeys /\ [][NextKeys]_vars

----------------------------------------------------------------------------
(* Properties *)

\* C1: in every reachable state of the store, index_meta.total_files equals
\* the number of entries of the files map.
C1_TotalFilesIsRecordCount ==
    index_data.index_meta.total_files = Cardinality(Keys(index_data.files))

\* a remove_file that succeeded on an index of two records
C1_Witness ==
    /\ pc = "idle"
    /\ call.op = "remove" /\ call.ret = "ok" /\ call.total = 2
    /\ index_data.index_meta.total_files = 1

\* the snapshot a new store loads when the durable file is as it was when the
\* interrupted call was entered
IsPreviousSnapshot(d) ==
    IF call.predisk.exists
    THEN d = JsonLoad(call.predisk.text)
    ELSE d.files = <<>> /\ d.index_meta.total_files = 0

\* C2: when the process dies between two steps of _save_index and a new store
\* is constructed on the same index path, the snapshot it loads is the
\* complete previous snapshot or the complete new one.
C2_CrashLoadsOldOrNew ==
    [][(pc = "down" /\ call.ret = "pending" /\ pc' = "idle")
        => (index_data' = index_data \/ IsPreviousSnapshot(index_data'))]_vars

\* a file at the durable path is always a whole snapshot
WholeOrAbsent(f) == ~f.exists \/ JsonParses(f.text)

\* C3: the durable index path never holds a partially written snapshot; its
\* content changes only by a rename of the temporary file or of the backup
\* onto it or by its own rename to the backup, and the backup never receives
\* written bytes either.
C3_DurableOnlyRenamed ==
    [][/\ WholeOrAbsent(disk'.index)
       /\ disk'.index # disk.index =>
             \/ disk'.index = disk.tmp /\ disk'.tmp = Absent
             \/ disk'.index = disk.bak /\ disk'.bak = Absent
             \/ disk'.index = Absent /\ disk'.bak = disk.index
       /\ disk'.bak # disk.bak =>
             \/ disk'.bak = disk.index /\ disk'.index = Absent
             \/ disk'.bak = Absent]_vars

\* a truncated snapshot lies in the temporary file after a failed json.dump
\* while a durable file exists
C3_Witness ==
    /\ pc = "sv_except"
    /\ disk.tmp.exists /\ ~JsonParses(disk.tmp.text)
    /\ disk.index.exists

\* C4: whenever add_file or remove_file returns True, the durable index file
\* holds exactly the in-memory snapshot (records, total_files, last_updated).
C4_SuccessMeansPersisted ==
    (pc = "idle" /\ call.ret = "ok") =>
        /\ disk.index = FileOf(JsonDump(index_data))
        /\ JsonParses(disk.index.text)
        /\ JsonLoad(disk.index.text) = index_data

\* add_file returned True although the backup rename had failed
C4_Witness ==
    /\ pc = "idle"
    /\ call.op = "add" /\ call.ret = "ok" /\ call.had
    /\ faults > 0
    /\ Len(index_data.files) = 2

\* C5: a snapshot that was persisted successfully and is then loaded by a new
\* store on the same index path has the same records and the same total_files.
C5_RoundTrip ==
    [][(pc = "down" /\ call.ret = "ok" /\ pc' = "idle")
        => /\ index_data'.files = index_data.files
           /\ index_data'.index_meta.total_files = index_data.index_meta.total_files]_vars

\* a freshly constructed store that loaded two records from the durable file
C5_Witness ==
    /\ pc = "idle"
    /\ call.op = "none"
    /\ Len(index_data.files) = 2
    /\ disk.index = FileOf(JsonDump(index_data))

\* the paths of a query result
ResultPaths(res) == { res[i].path : i \in 1..Len(res) }

\* P is in no query result
AbsentFromQueries(d, p) ==
    /\ ~HasKey(d.files, p)
    /\ p \notin ResultPaths(search_by_size(d, 0, -1))
    /\ p \notin ResultPaths(search_by_type(d, Splitext(p)))

\* C6 as stated: after a successful add_file(P) followed by remove_file(P),
\* get_stats().total_files is what it was before the add, whatever the index
\* held, and P is absent from queries.
C6_TotalReturnsToPreAdd ==
    (call.op = "remove" /\ call.after.ok) =>
        /\ StatsTotalFiles(index_data) = call.after.total
        /\ AbsentFromQueries(index_data, call.path)

\* C6 amended: after a successful add_file(P) followed by remove_file(P),
\* get_stats().total_files is its pre-add value when P had no record before
\* the add, and one less when the add replaced a record of P; P is absent
\* from queries in both cases.
C6_AddThenRemove ==
    (call.op = "remove" /\ call.after.ok) =>
        /\ StatsTotalFiles(index_data) =
              IF call.after.had THEN call.after.total - 1 ELSE call.after.total
        /\ AbsentFromQueries(index_data, call.path)

\* remove_file(P) returned True right after add_file(P) had added P as a
\* second record
C6_Witness ==
    /\ pc = "idle"
    /\ call.op = "remove" /\ call.ret = "ok"
    /\ call.after.ok /\ ~call.after.had /\ call.after.total = 1
    /\ StatsTotalFiles(index_data) = 1

\* the step that enters add_file / remove_file
CallStep(op) == pc = "idle" /\ call' # call /\ call'.op = op

\* C7: add_file on a path that has a record, while the file is as the record
\* describes it, leaves the keys, their order, total_files and every field of
\* every record as they were; nothing later in the call changes the snapshot.
C7_ReAddIdempotent ==
    [][/\ (/\ CallStep("add")
           /\ HasKey(index_data.files, call'.path)
           /\ _calculate_file_hash(call'.path).ok
           /\ Get(index_data.files, call'.path) = FileInfo(call'.path))
          => /\ call'.ret = "pending"
             /\ index_data'.files = index_data.files
             /\ index_data'.index_meta.total_files = index_data.index_meta.total_files
             /\ index_data'.index_meta.version = index_data.index_meta.version
       /\ pc \in {"sv_backup", "sv_open", "sv_dump", "sv_rename", "sv_rmbak",
                  "sv_except", "sv_finally"}
          => index_data' = index_data]_vars

\* a second add_file of an unchanged file returned True at a later time
C7_Witness ==
    /\ pc = "idle"
    /\ call.op = "add" /\ call.ret = "ok" /\ call.had /\ call.after.ok
    /\ Get(index_data.files, call.path) = FileInfo(call.path)
    /\ call.predisk # disk.index

\* C8: add_file on a path that does not exist or whose file cannot be opened
\* returns False and changes neither the in-memory snapshot nor any file of
\* the persistence protocol.
C8_AddFailureNoChange ==
    [][(/\ CallStep("add")
        /\ (~Exists(call'.path) \/ fs[call'.path].kind = "locked"))
        => /\ call'.ret = "fail"
           /\ pc' = "idle"
           /\ index_data' = index_data
           /\ disk' = disk]_vars

\* add_file returned False on an unreadable file that has a record from
\* an earlier time
C8_Witness ==
    /\ pc = "idle"
    /\ call.op = "add" /\ call.ret = "fail" /\ call.had
    /\ fs[call.path].kind = "locked"
    /\ index_data.index_meta.last_updated # IsoFormat(now)

\* C9: remove_file on a path without a record returns False, changes nothing
\* and runs no step of _save_index; on a path with a record it deletes that
\* record and leaves every other record as it was.
C9_RemoveFrame ==
    [][CallStep("remove") =>
        IF HasKey(index_data.files, call'.path)
        THEN /\ Keys(index_data'.files) = Keys(index_data.files) \ {call'.path}
             /\ Len(index_data'.files) = Len(index_data.files) - 1
             /\ \A q \in Keys(index_data'.files) :
                   Get(index_data'.files, q) = Get(index_data.files, q)
        ELSE /\ call'.ret = "fail"
             /\ pc' = "idle"
             /\ index_data' = index_data
             /\ disk' = disk]_vars

\* remove_file returned False for a path without a record while another
\* record is indexed, at a time later than the last update
C9_Witness ==
    /\ pc = "idle"
    /\ call.op = "remove" /\ call.ret = "fail" /\ ~call.had
    /\ Len(index_data.files) = 1
    /\ index_data.index_meta.last_updated # IsoFormat(now)

\* the step in which _save_index finishes
SaveFinishes == pc = "sv_finally" /\ pc' = "idle"

\* C10 as stated: when _save_index finishes after a failure and a durable
\* file existed before, the durable path holds the previous snapshot; and no
\* temporary file is left in any outcome.
C10_RestoredAndNoTemp ==
    [][SaveFinishes =>
        /\ (exc /\ call.predisk.exists) => disk'.index = call.predisk
        /\ ~disk'.tmp.exists]_vars

\* C10 amended: when a step of _save_index raises while a durable file
\* existed before (and no old backup file lay around), the durable path holds
\* the previous snapshot after the except block unless renaming the backup
\* back itself fails; the finally block leaves the durable path alone and
\* removes the temporary file unless os.remove itself fails.
C10_RestoreAttempted ==
    [][/\ (/\ pc = "sv_except" /\ pc' = "sv_finally"
           /\ call.predisk.exists /\ ~call.prebak
           /\ faults' = faults)
          => disk'.index = call.predisk
       /\ SaveFinishes =>
             /\ disk'.index = disk.index
             /\ disk'.bak = disk.bak
             /\ faults' = faults => ~disk'.tmp.exists]_vars

\* a call that failed in _save_index has returned False with the previous
\* snapshot back at the durable path, no backup and no temporary file
C10_Witness ==
    /\ pc = "idle"
    /\ call.ret = "fail" /\ call.op = "add"
    /\ call.predisk.exists
    /\ disk.index = call.predisk
    /\ disk.index # FileOf(JsonDump(index_data))
    /\ ~disk.bak.exists /\ ~disk.tmp.exists

\* C11: when _save_index raises inside add_file or remove_file, the call
\* returns False and index_data keeps the mutation (the record is there after
\* add_file, gone after remove_file); and when a later call on another path
\* returns True, the durable file it wrote includes that mutation.
C11_FailureKeepsMutation ==
    /\ (pc = "idle" /\ call.raised) =>
          /\ call.ret = "fail"
          /\ (call.op = "add") = HasKey(index_data.files, call.path)
    /\ (pc = "idle" /\ call.ret = "ok" /\ call.unsaved.ok
            /\ call.unsaved.path # call.path) =>
          /\ disk.index.exists
          /\ JsonParses(disk.index.text)
          /\ (call.unsaved.op = "add") =
                HasKey(JsonLoad(disk.index.text).files, call.unsaved.path)

\* add_file returned True after a remove_file of another path whose
\* _save_index had raised
C11_Witness ==
    /\ pc = "idle"
    /\ call.op = "add" /\ call.ret = "ok"
    /\ call.unsaved.ok /\ call.unsaved.op = "remove"
    /\ call.unsaved.path # call.path

\* C12: constructing a store never fails, whatever the durable file holds:
\* when the file exists and parses the new snapshot is its content or, if it
\* could not be read, empty; when it does not parse or does not exist the new
\* snapshot is empty with total_files = 0.
C12_StartupNeverFails ==
    [][pc = "down" /\ pc' # "down" =>
         /\ pc' = "idle"
         /\ \/ /\ disk.index.exists
               /\ JsonParses(disk.index.text)
               /\ index_data' = JsonLoad(disk.index.text)
            \/ /\ index_data'.files = <<>>
               /\ index_data'.index_meta.total_files = 0
               /\ \/ ~disk.index.exists
                  \/ ~JsonParses(disk.index.text)
                  \/ faults' # faults]_vars

\* the observer thread of the monitor has ended (stop() has joined it)
ObserverStopped == _observer.state = "stopped"

\* C15: once stop() has returned True, and until a later start(), no handler
\* callback is running, the handler is not inside add_file / remove_file, the
\* handler lock is free, and neither the handler's position nor the index
\* changes; so a callback that was running when stop() was called has
\* completed before stop() returned.
C15_NoHandlerAfterStop ==
    /\ [](ObserverStopped => hpc = "idle" /\ pc = "idle" /\ _lock = "free")
    /\ [][ObserverStopped /\ ObserverStopped' =>
            UNCHANGED <<hpc, hev, index_data, disk, call>>]_vars

\* stop() was called while a callback was running and has returned True
C15_Witness ==
    /\ mpc = "idle"
    /\ mcall.op = "stop" /\ mcall.ret = "ok" /\ mcall.busy
    /\ ObserverStopped

\* C16: start() returns False when the monitor is already running or when a
\* watched root does not exist; in both cases the running flag, the observer
\* and its watches are as before, so with a missing root nothing is
\* subscribed and the monitor stays stopped; and while the monitor is not
\* running no handler callback runs.
C16_StartFailsWithoutEffect ==
    /\ [][((start \/ SetIntervalStart) /\ (_started \/ validate_paths # {})) =>
            /\ mcall'.ret = "fail"
            /\ UNCHANGED <<_started, _observer, queue, interval>>]_vars
    /\ [](~_started => hpc = "idle" /\ pc = "idle")

\* start() has returned False on a monitor that was never started, while a
\* watched root is missing
C16_Witness ==
    /\ mcall.op = "start" /\ mcall.ret = "fail"
    /\ validate_paths # {}
    /\ ~_started
    /\ _observer = NoObserver

\* C17: stop() on a monitor that is not running returns False and leaves the
\* running flag, the interval, the observer and its queue as they were.
C17_StopWhenStoppedIsNoOp ==
    [][(stop /\ ~_started) =>
          /\ mcall'.ret = "fail"
          /\ mpc' = "idle"
          /\ UNCHANGED <<_started, interval, _observer, queue>>]_vars

\* stop() has returned False on a monitor that had been started and stopped
C17_Witness ==
    /\ mcall.op = "stop" /\ mcall.ret = "fail"
    /\ ObserverStopped
    /\ ~_started

\* C18: is_running() is true exactly while the observer of the monitor is
\* alive; it becomes true only by a start() that returns True and false only
\* by a stop() that completes, every such start() and stop() changes it, and
\* a stop() keeps the interval.  (That a stopped monitor can be started again
\* and then indexes a new file is the witness.)
C18_Lifecycle ==
    /\ [](_started = Dispatching(_observer))
    /\ [][(~_started /\ _started') =>
            (start \/ SetIntervalStart) /\ mcall'.ret = "ok"]_vars
    /\ [][(_started /\ ~_started') => (StopJoin \/ SetIntervalJoin)]_vars
    /\ [][((start \/ SetIntervalStart) /\ mcall'.ret = "ok") => _started']_vars
    /\ [][(StopJoin \/ SetIntervalJoin) =>
            ~_started' /\ interval' = interval]_vars

\* after a stop() and a new start(), the handler is adding a file that had no
\* record and the save has gone through
C18_Witness ==
    /\ mcall.restarted
    /\ _started
    /\ hpc = "h_ret"
    /\ pc = "sv_finally" /\ ~exc
    /\ call.op = "add" /\ ~call.had
    /\ HasKey(index_data.files, call.path)

\* set_interval, entered on a running monitor, has gone through stop() and is
\* returning what its start() returns
SetIntervalReturns == SetIntervalStart

C20_IntervalFloor ==
    /\ [](interval >= MinInterval)
    /\ [](mcall.op = "init" =>
            interval = IF mcall.arg.val < MinInterval THEN MinInterval
                       ELSE mcall.arg.val)
    /\ [][(set_interval /\ mcall'.arg.num) =>
            interval' = IF mcall'.arg.val < MinInterval THEN MinInterval
                        ELSE mcall'.arg.val]_vars

\* set_interval was given a value below the floor and has stored the floor
C20_Witness ==
    /\ mcall.op = "set_interval" /\ mcall.ret = "ok"
    /\ mcall.arg.num /\ mcall.arg.val < MinInterval
    /\ mcall.restart
    /\ interval = MinInterval

\* C13: no two mutate-and-persist sequences on the store overlap: while the
\* handler callback is between its in-memory mutation and the end of its
\* _save_index, no other caller of add_file / remove_file is between its own
\* mutation and the end of its _save_index.
C13_MutualExclusion ==
    ~(pc \notin {"idle", "down", "failed"} /\ dpc = "d_save")

\* C14: what get_stats returns is get_stats of one snapshot that index_data
\* held at some instant while the query was running.
C14_QueryReadsOneSnapshot ==
    [][GetStatsReturn =>
          \E d \in qseen \cup {index_data} : qres' = get_stats(d)]_vars

----------------------------------------------------------------------------
(* The handler callbacks *)

\* the two paths of the model
FileA == CHOOSE p \in Paths : p.stem = "a"
FileB == CHOOSE p \in Paths : p.stem = "b"

\* the extension of p is not in a filter that is not empty
FilteredOut(p) ==
    monitored_extensions # {} /\ Lower(p.ext) \notin monitored_extensions

\* C21: with a non-empty filter no step of the engine adds, replaces or
\* removes the record of a path whose lower-cased extension is not in the
\* filter, and a Created, Modified or Deleted event on such a path never
\* enters a callback; with an empty filter every Created or Deleted event
\* does.
C21_FilterIsRespected ==
    /\ [][\A p \in Paths :
            FilteredOut(p) => RecordOf(index_data', p) = RecordOf(index_data, p)]_vars
    /\ [][(Dispatch /\ Head(queue).kind # "moved" /\ FilteredOut(Head(queue).src_path))
            => hpc' = "idle"]_vars
    /\ [][(Dispatch /\ monitored_extensions = {}
                    /\ Head(queue).kind \in {"created", "deleted"})
            => (hpc' # "idle" /\ hev'.src_path = Head(queue).src_path)]_vars

\* the filter of main() is set, the file whose extension is in it has been
\* indexed, and the one whose extension is not was created under the running
\* observer and its event has been taken from the queue without a record
C21_Witness ==
    /\ monitored_extensions = MainExtensions
    /\ queue = <<>> /\ hpc = "idle"
    /\ Exists(FileB) /\ ~HasKey(index_data.files, FileB)
    /\ HasKey(index_data.files, FileA)

\* a Created event for p waits in the queue of an observer whose thread is
\* alive, and the filter lets p pass
CreatedQueued(p) ==
    /\ Dispatching(_observer)
    /\ ~FilteredOut(p)
    /\ \E i \in 1..Len(queue) : queue[i] = Event("created", p)

\* C22: when the observer thread is scheduled, every Created event queued for
\* a path that passes the filter is followed by a state in which the path has
\* a record, unless the file stops being there and readable on the way; this
\* holds for each of the files created in a burst.
C22_CreatedIsIndexed ==
    \A p \in Paths :
        CreatedQueued(p) ~> (HasKey(index_data.files, p) \/ fs[p].kind # "file")

\* both files were created one after the other with no filter set, both are
\* readable and both have been indexed by the handler
C22_Witness ==
    /\ monitored_extensions = {}
    /\ \A p \in Paths : fs[p].kind = "file" /\ HasKey(index_data.files, p)
    /\ call.op = "add" /\ call.ret = "ok"
    /\ hpc = "idle" /\ queue = <<>>

\* C23: in on_modified, add_file(path) is called after remove_file(path) has
\* left no record for the path, and when the file is there and readable at
\* that call the record the index then holds is computed from the content the
\* file has now (size, modification time and checksum); no step changes the
\* records between that call and the return of the callback.
C23_ModifiedReindexes ==
    /\ []((hpc = "h_call2" /\ hev.kind = "modified")
            => ~HasKey(index_data.files, hev.src_path))
    /\ [][(HandlerCall2 /\ hev.kind = "modified" /\ fs[hev.src_path].kind = "file")
            => RecordOf(index_data', hev.src_path) = <<FileInfo(hev.src_path)>>]_vars
    /\ [][(hpc = "h_ret" /\ hev.kind = "modified")
            => index_data'.files = index_data.files]_vars

\* the reaction to a Modified event has re-indexed a file that was indexed
\* with other content before: the add_file of on_modified has returned True
\* and the record carries the checksum of the rewritten content
C23_Witness ==
    /\ hpc = "h_ret" /\ pc = "idle"
    /\ hev.kind = "modified"
    /\ call.op = "add" /\ call.ret = "ok" /\ ~call.had
    /\ fs[hev.src_path].content = <<2, 1>>
    /\ RecordOf(index_data, hev.src_path) = <<FileInfo(hev.src_path)>>

\* C24: a Modified event that on_modified is given less than DebounceWindow
\* after the last Modified event for the same path that passed the debounce
\* test is discarded: the callback returns at once and nothing is mutated.
C24_DebounceDiscards ==
    [][(/\ Dispatch
        /\ Head(queue).kind = "modified"
        /\ accepted.time # -1
        /\ accepted.path = Head(queue).src_path
        /\ now - accepted.time < DebounceWindow)
        => (hpc' = "idle" /\ accepted' = accepted)]_vars

\* C25: on_deleted for a path that passes the filter goes to the lock without
\* a readiness wait; its remove_file leaves no record for the path, whether
\* there was one or not, and leaves every other record as it was; and nothing
\* changes the records before the callback returns.
C25_DeletedRemoves ==
    /\ [][(Dispatch /\ Head(queue).kind = "deleted"
                    /\ ~FilteredOut(Head(queue).src_path))
            => (hpc' = "h_lock" /\ hev'.src_path = Head(queue).src_path)]_vars
    /\ [][(HandlerCall /\ hev.kind = "deleted")
            => /\ ~HasKey(index_data'.files, hev.src_path)
               /\ \A q \in Paths \ {hev.src_path} :
                     RecordOf(index_data', q) = RecordOf(index_data, q)]_vars
    /\ [][(hpc = "h_ret" /\ hev.kind = "deleted")
            => index_data'.files = index_data.files]_vars

\* on_deleted has removed the record of a deleted file and the record of the
\* other file is still there
C25_Witness ==
    /\ hpc = "h_ret" /\ pc = "idle"
    /\ hev.kind = "deleted"
    /\ call.op = "remove" /\ call.path = hev.src_path
    /\ call.had /\ call.ret = "ok"
    /\ ~HasKey(index_data.files, hev.src_path)
    /\ \E q \in Paths \ {hev.src_path} : HasKey(index_data.files, q)

\* on_moved is about to return; source and destination both pass the filter,
\* the source had a record and add_file(dest_path) has returned True
RenameDone ==
    /\ ReleaseLock
    /\ hev.kind = "moved"
    /\ ~FilteredOut(hev.src_path) /\ ~FilteredOut(hev.dest_path)
    /\ src_record # <<>>
    /\ call.op = "add" /\ call.path = hev.dest_path /\ call.ret = "ok"

\* C26 as stated: after the rename of an indexed file, both paths passing the
\* filter and the destination added, the index holds the destination with
\* the checksum the source record had and holds no source record.
C26_RenameKeepsChecksum ==
    [][RenameDone =>
          /\ ~HasKey(index_data.files, hev.src_path)
          /\ HasKey(index_data.files, hev.dest_path)
          /\ Get(index_data.files, hev.dest_path).checksum = src_record[1].checksum]_vars

\* C26: on_moved leaves no record for the source when the source passes the
\* filter and leaves its record alone when it does not; it looks at the
\* destination only when the destination passes the filter, calls add_file
\* for it only after the readiness wait has succeeded, and that add_file
\* stores a record computed from the content the destination file has at
\* that call, or nothing when the file is gone or unreadable by then; after a
\* rename with both paths passing and the destination added, the index holds
\* no source record and a destination record whose checksum is that of the
\* destination's content, which is the source record's checksum when that
\* record was computed from the same content.
C26_MovedHalves ==
    /\ [][(HandlerCall /\ hev.kind = "moved")
            => /\ IF FilteredOut(hev.src_path)
                  THEN index_data' = index_data
                  ELSE /\ ~HasKey(index_data'.files, hev.src_path)
                       /\ RecordOf(index_data', hev.dest_path)
                             = RecordOf(index_data, hev.dest_path)
               /\ FilteredOut(hev.dest_path) => hpc' = "h_ret"]_vars
    /\ []((hev.kind = "moved" /\ hpc \in {"h_wait2", "h_call2"})
            => ~FilteredOut(hev.dest_path))
    /\ [][(WaitDestReady /\ fs[hev.dest_path].kind # "file")
            => (hpc' = "h_ret" /\ index_data' = index_data)]_vars
    /\ [][(HandlerCall2 /\ hev.kind = "moved")
            => RecordOf(index_data', hev.dest_path)
                  = IF fs[hev.dest_path].kind = "file"
                    THEN <<FileInfo(hev.dest_path)>>
                    ELSE RecordOf(index_data, hev.dest_path)]_vars
    /\ [][RenameDone =>
            /\ ~HasKey(index_data.files, hev.src_path)
            /\ HasKey(index_data.files, hev.dest_path)
            /\ \E s \in EventFileStates(FileA) :
                  /\ s.kind = "file"
                  /\ Get(index_data.files, hev.dest_path).checksum
                        = Md5Update(0, s.content)
                  /\ src_record[1].checksum = Md5Update(0, s.content)
                        => Get(index_data.files, hev.dest_path).checksum
                              = src_record[1].checksum]_vars

\* an indexed file has been renamed with no filter set: on_moved has removed
\* the source record and added the destination with the checksum the source
\* record had
C26_Witness ==
    /\ hpc = "h_ret" /\ pc = "idle"
    /\ hev.kind = "moved"
    /\ monitored_extensions = {}
    /\ src_record # <<>>
    /\ call.op = "add" /\ call.path = hev.dest_path /\ call.ret = "ok"
    /\ ~HasKey(index_data.files, hev.src_path)
    /\ HasKey(index_data.files, hev.dest_path)
    /\ Get(index_data.files, hev.dest_path).checksum = src_record[1].checksum

\* the readiness wait of on_created or on_modified runs into its timeout
WaitFails == WaitReady /\ fs[hev.src_path].kind # "file"

\* the readiness wait of on_moved for the destination runs into its timeout
WaitDestFails == WaitDestReady /\ fs[hev.dest_path].kind # "file"

\* C27 as stated: when the readiness wait of a Created or Modified event, or
\* the one for the destination of a Moved event, fails, the callback ends
\* and the index is as it was when the event was taken.
C27_NotReadyChangesNothing ==
    /\ [][WaitFails => (hpc' = "idle" /\ index_data' = index_data)]_vars
    /\ [][WaitDestFails =>
            /\ hpc' = "h_ret"
            /\ RecordOf(index_data', hev.src_path) = src_record
            /\ ~HasKey(index_data'.files, hev.dest_path)
                  \/ RecordOf(index_data', hev.dest_path)
                        = RecordOf(index_data, hev.dest_path)]_vars

\* C27: when the readiness wait of on_created or on_modified fails, the
\* callback returns with no store call made, the index as it was and the
\* event not queued again (on_modified leaves its _pending_events entry
\* behind); when the wait for the destination of a Moved event fails, no
\* add_file is made and the callback goes on to its return with the index as
\* the source half left it, that is without the source record when the source
\* passes the filter; nothing changes the index before the callback returns.
C27_NotReadyIsDropped ==
    /\ [][WaitFails =>
            /\ hpc' = "idle" /\ hev' = NoEvent
            /\ index_data' = index_data /\ call' = call /\ disk' = disk
            /\ queue' = queue
            /\ _pending_events' = _pending_events
            /\ hev.kind = "modified" => _pending_events[hev.src_path] # -1]_vars
    /\ [][WaitDestFails =>
            /\ hpc' = "h_ret"
            /\ index_data' = index_data /\ call' = call /\ disk' = disk
            /\ queue' = queue
            /\ ~FilteredOut(hev.src_path) => ~HasKey(index_data'.files, hev.src_path)]_vars
    /\ [][hpc = "h_ret" => index_data' = index_data]_vars

\* with no filter set, a file that had a record was renamed to a path where
\* it cannot be opened: on_moved has removed the source record, the wait for
\* the destination has failed and nothing was added
C27_Witness ==
    /\ hpc = "h_ret" /\ pc = "idle"
    /\ hev.kind = "moved"
    /\ monitored_extensions = {}
    /\ fs[hev.dest_path].kind = "locked"
    /\ src_record # <<>>
    /\ call.op = "remove" /\ call.path = hev.src_path /\ call.ret = "ok"
    /\ index_data.files = <<>>

\* C28: a callback whose store call has reported failure returns with the
\* lock released and leaves the running flag, the observer and the queue as
\* they are; no callback is ever left holding the lock; once started the
\* monitor stays running with its observer thread alive; and the events that
\* follow are taken from the queue as before.
C28_FailureDoesNotStop ==
    /\ [][(ReleaseLock /\ call.ret = "fail")
            => /\ hpc' = "idle" /\ _lock' = "free"
               /\ _started' = _started /\ _observer' = _observer
               /\ queue' = queue]_vars
    /\ [](hpc = "idle" => _lock = "free")
    /\ [][_started => (_started' /\ _observer'.state = "running")]_vars
    /\ []((_started /\ hpc = "idle" /\ queue # <<>>) => ENABLED Dispatch)

\* a store call of the handler has raised inside _save_index for one path,
\* and the handler has since added the other path to the index, with the
\* monitor still running
C28_Witness ==
    /\ hpc = "h_ret" /\ pc = "idle"
    /\ _started /\ _observer.state = "running"
    /\ call.op = "add" /\ call.ret = "ok"
    /\ call.unsaved.ok /\ call.unsaved.path # call.path
    /\ HasKey(index_data.files, call.path)

\* C29: when add_file(path) has looked at a path, the index holds a record
\* for it exactly when the path was there and readable at that look.
C29_RecordIffReadable ==
    [][add_file =>
          (HasKey(index_data'.files, call'.path) <=> fs[call'.path].kind = "file")]_vars

\* C30: every key of the files map is the absolute form of its path, and no
\* two keys name the same file.
C30_KeysAreCanonical ==
    /\ \A k \in Keys(index_data.files) : k = Resolve(k)
    /\ \A k1, k2 \in Keys(index_data.files) : Resolve(k1) = Resolve(k2) => k1 = k2

----------------------------------------------------------------------------
(* The searches *)

\* C31: a search_by_date with neither start_date nor end_date given ends in
\* an error and returns no records.
C31_MissingBoundFails ==
    (sres.op = "date" /\ sres.lo = NoBound /\ sres.hi = NoBound)
        => (sres.raised /\ sres.results = <<>>)

\* the entries of a sequence, as a set
Entries(seq) == { seq[i] : i \in 1..Len(seq) }

\* no entry occurs twice in a sequence
NoRepeat(seq) == \A i, j \in 1..Len(seq) : seq[i] = seq[j] => i = j

\* C32: search_by_size(min, max) returns, without an error and each once,
\* exactly the records with min <= size, and size <= max when max is given;
\* with min 0 and no max that is every record, and with min > max none.
C32_SizeRangeIsExact ==
    sres.op = "size" =>
        /\ ~sres.raised
        /\ NoRepeat(sres.results)
        /\ Entries(sres.results)
              = { e \in Entries(index_data.files) :
                    /\ sres.lo.val <= e.info.size
                    /\ sres.hi = NoBound \/ e.info.size <= sres.hi.val }
        /\ (sres.lo.val = 0 /\ sres.hi = NoBound)
              => Entries(sres.results) = Entries(index_data.files)
        /\ (sres.hi # NoBound /\ sres.lo.val > sres.hi.val) => sres.results = <<>>

\* a search with min above max on an index of three records has returned
\* nothing, and no error
C32_Witness ==
    /\ sres.op = "size" /\ ~sres.raised
    /\ sres.hi # NoBound /\ sres.lo.val > sres.hi.val
    /\ \E e \in Entries(index_data.files) : e.info.size = sres.hi.val
    /\ Len(index_data.files) = 3
    /\ sres.results = <<>>

\* what the filter of the last search selects, before any sorting
Unsorted ==
    IF sres.op = "size"
    THEN search_by_size(index_data, sres.lo.val,
                        IF sres.hi = NoBound THEN -1 ELSE sres.hi.val)
    ELSE search_by_date(index_data, sres.lo, sres.hi)

\* where an entry stands in a sequence
Pos(seq, e) == CHOOSE i \in 1..Len(seq) : seq[i] = e

\* C33: with sort_by date, size or name the result holds exactly the records
\* of the unsorted filter result, each once, in non-decreasing order of the
\* key for asc and non-increasing order for desc, and two records with the
\* same key stand in the order they had before sorting; with no sort_by the
\* result is the unsorted filter result.
C33_SortIsStable ==
    (sres.op # "none" /\ ~sres.raised) =>
        /\ sres.sort_by = "none" => sres.results = Unsorted
        /\ sres.sort_by \in {"date", "size", "name"} =>
              /\ Len(sres.results) = Len(Unsorted)
              /\ Entries(sres.results) = Entries(Unsorted)
              /\ \A i, j \in 1..Len(sres.results) :
                    i < j =>
                       LET ki == SortKey(sres.sort_by, sres.results[i])
                           kj == SortKey(sres.sort_by, sres.results[j])
                       IN  /\ IF Lower(sres.sort_order) = "desc" THEN ki >= kj
                              ELSE ki <= kj
                           /\ ki = kj => Pos(Unsorted, sres.results[i])
                                            < Pos(Unsorted, sres.results[j])

\* three records were sorted by name in descending order: the result is not
\* in the order of the index, and the two records with the same filename
\* stand in the order they have in the index
C33_Witness ==
    /\ sres.op = "size" /\ sres.sort_by = "name" /\ sres.sort_order = "desc"
    /\ Len(sres.results) = 3
    /\ sres.results # index_data.files
    /\ \E i, j \in 1..3 :
          /\ i < j
          /\ NameKey(sres.results[i].info.filename) = NameKey(sres.results[j].info.filename)
          /\ Pos(index_data.files, sres.results[i]) < Pos(index_data.files, sres.results[j])

----------------------------------------------------------------------------
(* The order of the persistence steps *)

\* C34: the durable file is moved to the backup path only when the temporary
\* file holds the whole new snapshot, and the temporary file is renamed into
\* place only after that; so while _save_index has not finished writing the
\* temporary file, a durable file that existed at entry is still there.
C34_WriteBackupRename ==
    /\ [][(disk.index.exists /\ ~disk'.index.exists /\ pc # "down")
            => disk.tmp = FileOf(JsonDump(index_data))]_vars
    /\ []((pc \in {"sv_open", "sv_dump"} /\ call.predisk.exists) => disk.index.exists)

----------------------------------------------------------------------------
(* The readiness wait *)

\* C35: a readiness wait reports the path ready only when the file holds at
\* least one byte to read.
C35_ReadyMeansByteRead ==
    /\ [][(WaitReady /\ hpc' = "h_lock")
            => Len(fs[hev.src_path].content) >= 1]_vars
    /\ [][(WaitDestReady /\ hpc' = "h_call2")
            => Len(fs[hev.dest_path].content) >= 1]_vars

\* C36: a readiness wait sleeps at most ReadyTimeout / PollSpacing times,
\* and, the observer thread being scheduled, every wait ends whether or not
\* the file ever opens, every callback that has started returns with the lock
\* released, and a callback that wants the lock gets it.
C36_NothingBlocks ==
    /\ [](polls * PollSpacing <= ReadyTimeout)
    /\ (hpc \in {"h_wait", "h_wait2"}) ~> (hpc \notin {"h_wait", "h_wait2"})
    /\ (hpc # "idle") ~> (hpc = "idle" /\ _lock = "free")
    /\ (hpc = "h_lock") ~> (_lock = "handler")

\* a readiness wait for a file that cannot be opened has slept for the whole
\* timeout and is about to give up
C36_Witness ==
    /\ hpc = "h_wait"
    /\ fs[hev.src_path].kind = "locked"
    /\ polls * PollSpacing = ReadyTimeout

----------------------------------------------------------------------------
(* Events delivered twice *)

\* the second handling of an event delivered twice is under way or over, and
\* the file system has not changed since the first
SecondHandling == redelivered /\ queue = <<>>

\* C37: when a Created, Deleted or Moved event is handled a second time with
\* the file system unchanged, no step of the second handling changes the
\* records: the index holds the same keys with the same fields as after the
\* first handling.
C37_SecondHandlingChangesNothing ==
    [][SecondHandling => index_data'.files = index_data.files]_vars

\* the second handling of a Created event has added the file again at a later
\* time than the first
C37_Witness ==
    /\ SecondHandling
    /\ hpc = "h_ret"
    /\ hev.kind = "created"
    /\ call.op = "add" /\ call.ret = "ok"
    /\ index_data.index_meta.last_updated = IsoFormat(now)
    /\ now > 0

----------------------------------------------------------------------------
(* What a failed call leaves behind *)

\* C38: when remove_file has returned False, the path had no record when it
\* was called, so that the records are those from before the call.
C38_FalseMeansNoRecord ==
    (call.op = "remove" /\ call.ret = "fail" /\ pc = "idle") =>
        /\ ~call.had
        /\ ~HasKey(index_data.files, call.path)

\* the temporary file has been renamed into place in the save in progress: the
\* durable file holds the new snapshot, which it did not hold before the call
RenamedIntoPlace ==
    /\ pc \in {"sv_rmbak", "sv_except", "sv_finally"}
    /\ disk.index = FileOf(JsonDump(index_data))
    /\ disk.index # call.predisk

\* C39: once the temporary file has been renamed into place, no later step of
\* _save_index (removal of the backup, the except clause, the cleanup) changes
\* the durable file: it holds the new snapshot when _save_index finishes.
C39_RenameIsFinal ==
    [][RenamedIntoPlace => disk'.index = disk.index]_vars

\* C40: a set_interval that returns False leaves the interval and the
\* Running/Stopped state as they were before the call: when it fails at once
\* nothing changes, and when it fails in the restart of a monitor that was
\* running the monitor is running and the interval is not the requested one,
\* which differed from the interval the call found.
C40_SetIntervalAllOrNothing ==
    /\ [][(set_interval /\ mcall'.ret = "fail") =>
            /\ interval' = interval
            /\ _started' = _started]_vars
    /\ [][(SetIntervalReturns /\ mcall'.ret = "fail") =>
            /\ _started'
            /\ interval' # ClampInterval(mcall.arg)]_vars

====
